---- MODULE Spec2Model ----
(***************************************************************************)
(* Touch, gesture and view state machines of the T-Display-S3-Long         *)
(* sketches: the uptime monitor and the dual-mode (uptime / Spotify)       *)
(* display.  The variable variant says which sketch the device runs.       *)
(*                                                                         *)
(* One step of the model is one iteration of the Arduino loop(): time      *)
(* passes, the touch controller is polled, handleTouch() runs, then the    *)
(* timers and redraws of loop() run in source order.                       *)
(*                                                                         *)
(* Time.  The sketches keep timestamps (touchStartTime, lastUpdate, ...)   *)
(* and only ever read them in differences millis() - t.  The model keeps   *)
(* those differences: a timestamp variable t of the source is the variable *)
(* tElapsed = millis() - t here, "t = millis()" is "tElapsed' = 0", and    *)
(* every clock advances by the same amount at the start of an iteration.   *)
(* A clock stops counting one step above the largest threshold it is       *)
(* compared with, which no comparison of the source can tell apart.        *)
(* millis() is sampled once per iteration: the duration of blocking calls  *)
(* is part of the time that passes before the next iteration.              *)
(***************************************************************************)
EXTENDS Integers, Sequences, FiniteSets, TLC

VARIABLES
  variant,            \* which sketch runs on the device: "uptime" or "dual"
  \* ---- touch state (both sketches)
  isTouching, isDragging,
  touchStartX, touchStartY, lastTouchX, lastTouchY,
  touchElapsed,       \* millis() - touchStartTime
  \* ---- uptime data and view state
  monitorCount, scrollOffset, maxScroll, selectedMonitor,
  lastScrollOffset,   \* static of loop()
  detailElapsed,      \* millis() - detailViewEnterTime
  updateElapsed,      \* millis() - lastUpdate  (lastUptimeUpdate in dual mode)
  redrawElapsed,      \* millis() - lastDetailRedraw (static of loop())
  footerElapsed,      \* millis() - lastTimeUpdate   (static of loop())
  \* ---- dual-mode state
  currentMode, modeChanged,
  trackValid, trackPlaying,
  pollElapsed,        \* millis() - lastSpotifyPoll
  progressElapsed,    \* millis() - lastSpotifyProgress
  \* ---- what the last iteration did (observation only, never read by the code)
  event,              \* branch of handleTouch taken: "none", "start", "move", "up"
  action,             \* effect of the touch-up: "none", "select", "refresh", ...
  fetches,            \* calls of fetchMonitors() in the iteration
  upDragging,         \* isDragging as the touch-up found it
  timedOut,           \* the iteration ran the detail view's auto-return
  frameView,          \* last frame pushed to the panel
  shortSteps,         \* iterations so far that took less than a long step
  highlightedButton,  \* the button under the finger (player v2)
  needsRedraw,        \* the players' dirty flag
  needsFullRedraw,    \* dirty flag of player v2
  hasActiveDevice,    \* currentTrack.hasActiveDevice (player v2)
  fingerAt,           \* where readTouch() last saw the finger (observation)
  frameList,          \* the list as last drawn: message, rows, scrollbar, offset (observation)
  pushes,             \* regions handed to lcd_PushColors in the iteration (observation)
  trackDuration,      \* currentTrack.durationMs
  fault,              \* a division by zero: "none", "garbage" (the iteration
                      \* went on with some quotient), "trap" (the sketch stopped)
  startedInDetail,    \* the touch in progress began in detail view (observation)
  isStartingPlayback, \* startFavorites() is under way
  startRaised,        \* this iteration raised isStartingPlayback (observation)
  startingFrames,     \* frames this iteration drew with "Starting..." (observation)
  \* ---- the touch decoder on its own
  touchBuf,           \* the controller's answer to the poll
  touchOut,           \* what readTouch() made of it
  \* ---- the drawing helpers on their own
  drawCall,           \* the helper called last, with its arguments
  fbWrites,           \* the indices of fb[] the call wrote
  \* ---- the monitor list on its own
  monitors,           \* monitors[]: the id of the record in each slot
  answer,             \* the provider's answer to the last request
  \* ---- the players' album art
  albumArtUrl,        \* currentTrack.albumArtUrl
  lastAlbumArtUrl,    \* the URL the art buffer was last filled from
  albumArtLoaded,     \* the art buffer holds a decoded image
  \* ---- the frame buffer's colours on their own
  fb,                 \* fb[]: the colour of the last fbClear() and of the pixels written since
  paintLog            \* the helpers called on fb[], in order, with their arguments

sketchVars == << variant, isTouching, isDragging, touchStartX, touchStartY,
           lastTouchX, lastTouchY, touchElapsed, monitorCount, scrollOffset,
           maxScroll, selectedMonitor, lastScrollOffset, detailElapsed,
           updateElapsed, redrawElapsed, footerElapsed, currentMode,
           modeChanged, trackValid, trackPlaying, pollElapsed,
           progressElapsed, event, action, fetches, upDragging, timedOut,
           frameView,
           highlightedButton,
           needsRedraw,
           needsFullRedraw,
           hasActiveDevice,
           fingerAt,
           frameList,
           pushes,
           trackDuration,
           fault,
           startedInDetail,
           isStartingPlayback,
           startRaised,
           startingFrames,
           shortSteps >>

decoderVars == << touchBuf, touchOut >>

rasterVars == << drawCall, fbWrites >>

providerVars == << monitors, answer >>

artVars == << albumArtUrl, lastAlbumArtUrl, albumArtLoaded >>

paintVars == << fb, paintLog >>

vars == << sketchVars, decoderVars, rasterVars, providerVars, artVars, paintVars >>

----------------------------------------------------------------------------
(* Program constants *)

MAX_MONITORS == 12
UPDATE_INTERVAL == 60000
DETAIL_TIMEOUT == 10000
SCREEN_W == 180
SCREEN_H == 640
ROW_PITCH == 95
LIST_VIEWPORT == 570
LIST_TOP == 60
CARD_HEIGHT == 85
DETAIL_REDRAW == 100
FOOTER_INTERVAL == 10000
HEADER_BOTTOM == 55
LIST_BOTTOM == 620
MOVE_THRESHOLD == 15
TAP_TIME == 500
TAP_MOVE == 30
SWIPE_THRESHOLD == 80
SWIPE_ZONE_HEIGHT == 80
SWIPE_TIME == 1000
DUAL_HEADER_BOTTOM == 80
DUAL_MAX_ROWS == 8
DUAL_ROW_TOP == 80
DUAL_ROW_PITCH == 30
UPTIME_UPDATE_INTERVAL == 60000
SPOTIFY_API_POLL_INTERVAL == 3000
SPOTIFY_PROGRESS_UPDATE == 100
PLAYER_TAP_TIME == 500
PLAYER_CONTROLS_TOP == 410
PLAYER_CONTROLS_BOTTOM == 460
PLAYER_BUTTON_W == 50
PLAYER_BUTTON_GAP == 5
PLAYER_ART_SIZE == 180
PLAYER_API_POLL_INTERVAL == 3000
PLAYER_PROGRESS_UPDATE == 100
V2_TAP_TIME == 500
ALBUM_ART_SIZE == 180
CONTROLS_Y == 340
BTN_SIZE == 60
BTN_PLAY_SIZE == 70
BTN_SPACING == 10

----------------------------------------------------------------------------
(* Bounds of the exploration *)

\* Iterations shorter than a long step that one run of the uptime monitor
\* may contain.
MaxShortSteps == 3

\* The same for the dual-mode sketch (two swipes take four).
MaxDualShortSteps == 4

\* Time between two polls: a short iteration, or a long idle / blocked one.
ShortSteps == {100}
LongSteps == {10000}
DualLongSteps == {30000}

\* Time from power-up to the first loop() iteration.
BootTimes == {10000}

\* Sizes of the monitor list the provider delivers.
ProviderSizes == {0, 7}

\* Raw 12-bit controller coordinates of the sampled touch points,
\* <<rawX, rawY>>; on the panel they are (90,7), (90,57), (90,107), (110,107).
RawPoints == {<<633, 90>>, <<583, 90>>, <<533, 90>>, <<533, 110>>}

\* Raw points polled on the players: the album art (90, 100), the big play
\* button of the empty screen (90, 280), the play/pause button of player v2
\* (90, 375) and the play/pause button of the first player (90, 430).
PlayerRawPoints == {<<540, 90>>, <<360, 90>>, <<265, 90>>, <<210, 90>>}

\* Arguments the drawing helpers are called with: left of, on and right of
\* the screen, above and below it; negative, empty, small and oversized.
DrawXs == {-3, 0, 90, 178, 181}
DrawYs == {-3, 0, 638, 641}
DrawWidths == {-1, 0, 4, 200}
DrawHeights == {-1, 0, 4, 700}
DrawRadii == {-1, 0, 3, 20}
RoundXs == {-3, 178}
RoundYs == {-3, 638}
DrawChars == {31, 32, 33, 65, 122, 123}
DrawScales == {-1, 0, 1, 2, 12}
DrawTexts == {<< >>, << 65, 33 >>, << 65, 31, 63, 65 >>}

\* Where the helpers are called on one buffer, and with which colours
\* (C_BG and C_TEXT).
PaintAt == {<< -1, -1 >>, << 2, 2 >>}
Colours == {0, 65535}

\* The number of calls made on one buffer.
MaxPaints == 2

\* Widths of the progress fill drawProgressBar() asks for, of 160 at most.
FillWidths == {1, 2, 5, 6, 80, 160}

\* Bytes of the controller's report the decoder is tried on: gesture codes,
\* point counts, high bytes (the coordinate's top nibble under event flags)
\* and low bytes.
GestureCodes == {0, 1}
PointCounts == {0, 1, 2}
HighBytes == {0, 2, 15, 130}
LowBytes == {0, 1, 128, 180, 255}

----------------------------------------------------------------------------
(* Helpers *)

Abs(a) == IF a < 0 THEN -a ELSE a
Max(a, b) == IF a > b THEN a ELSE b
Min(a, b) == IF a < b THEN a ELSE b

\* C integer division truncates toward zero.
CDiv(a, b) == IF a >= 0 THEN a \div b ELSE -((-a) \div b)

\* A clock of the source, dt later; it stops counting above cap.
Tick(c, dt, cap) == Min(c + dt, cap)

NoTouch == << >>

\* A call of a drawing helper: its name and its arguments (0 where the
\* helper has no such argument), and whether it has returned.
Call(op, x, y, w, h, r, ch, sz) ==
  [op |-> op, x |-> x, y |-> y, w |-> w, h |-> h, r |-> r, ch |-> ch, sz |-> sz,
   done |-> FALSE]

\* No list has been drawn yet.
NoList == [message |-> FALSE, rows |-> 0, bar |-> FALSE, offset |-> 0]

\* fb[] before anything is drawn: every pixel holds what it held before.
BlankBuffer == [base |-> "before", over |-> [i \in {} |-> 0]]

\* No drawing helper has been called yet.
NoCall == Call("none", 0, 0, 0, 0, 0, << >>, 0)

----------------------------------------------------------------------------
(* Touch decoder *)

\* What the controller answers to one poll: no answer within the timeout, or
\* a report with a gesture code, a point count and the first point.
NoAnswer == [avail |-> FALSE, gesture |-> 0, points |-> 0, rawX |-> 0, rawY |-> 0]

Samples ==
  {NoAnswer}
  \cup [avail : {TRUE}, gesture : {0}, points : {0}, rawX : {0}, rawY : {0}]
  \cup {[avail |-> TRUE, gesture |-> 0, points |-> 1, rawX |-> q[1], rawY |-> q[2]] :
          q \in RawPoints}

PlayerSamples ==
  {NoAnswer}
  \cup {[avail |-> TRUE, gesture |-> 0, points |-> 1, rawX |-> q[1], rawY |-> q[2]] :
          q \in PlayerRawPoints}

\* A decoder that takes the mirrored axis as it comes.
ReadTouch_Unmirrored(s) ==
  IF ~s.avail THEN NoTouch
  ELSE IF s.points > 0 /\ s.gesture = 0
       THEN << Max(0, Min(SCREEN_W - 1, s.rawY)),
               Max(0, Min(SCREEN_H - 1, s.rawX)) >>
       ELSE NoTouch

\* A decoder that does not look at the gesture code.
ReadTouch_AnyGesture(s) ==
  IF ~s.avail THEN NoTouch
  ELSE IF s.points > 0
       THEN << Max(0, Min(SCREEN_W - 1, s.rawY)),
               Max(0, Min(SCREEN_H - 1, SCREEN_H - s.rawX)) >>
       ELSE NoTouch

\* readTouch(): NoTouch, or the point <<x, y>> in display space.
ReadTouch(s) ==
  IF ~s.avail THEN NoTouch
  ELSE IF s.points > 0 /\ s.gesture = 0
       THEN << Max(0, Min(SCREEN_W - 1, s.rawY)),
               Max(0, Min(SCREEN_H - 1, SCREEN_H - s.rawX)) >>
       ELSE NoTouch

\* The 12-bit coordinate in two bytes of the report.
RawOf(hi, lo) == (hi % 16) * 256 + lo

\* The bytes of the 8-byte report readTouch() looks at; avail: the controller
\* answered within the timeout.
NoReport == [avail |-> FALSE, b0 |-> 0, b1 |-> 0, b2 |-> 0, b3 |-> 0,
             b4 |-> 0, b5 |-> 0]

Reports ==
  {NoReport} \cup
  [avail : {TRUE}, b0 : GestureCodes, b1 : PointCounts,
   b2 : HighBytes, b3 : LowBytes, b4 : HighBytes, b5 : LowBytes]

\* readTouch() on the bytes of a report.
ReadReport(buf) ==
  ReadTouch([avail |-> buf.avail, gesture |-> buf.b0, points |-> buf.b1,
             rawX |-> RawOf(buf.b2, buf.b3), rawY |-> RawOf(buf.b4, buf.b5)])

\* One poll of the controller, decoded.
PollTouch ==
  /\ \E buf \in Reports :
       /\ touchBuf' = buf
       /\ touchOut' = ReadReport(buf)
  /\ UNCHANGED << sketchVars, rasterVars, providerVars, artVars, paintVars >>

----------------------------------------------------------------------------
(* The program state as one record, so that the functions of the sketch     *)
(* compose in source order inside one loop() iteration.                     *)

Cur ==
  [ variant |-> variant,
    isTouching |-> isTouching, isDragging |-> isDragging,
    touchStartX |-> touchStartX, touchStartY |-> touchStartY,
    lastTouchX |-> lastTouchX, lastTouchY |-> lastTouchY,
    touchElapsed |-> touchElapsed,
    monitorCount |-> monitorCount, scrollOffset |-> scrollOffset,
    maxScroll |-> maxScroll, selectedMonitor |-> selectedMonitor,
    lastScrollOffset |-> lastScrollOffset,
    detailElapsed |-> detailElapsed, updateElapsed |-> updateElapsed,
    redrawElapsed |-> redrawElapsed, footerElapsed |-> footerElapsed,
    currentMode |-> currentMode, modeChanged |-> modeChanged,
    trackValid |-> trackValid, trackPlaying |-> trackPlaying,
    pollElapsed |-> pollElapsed, progressElapsed |-> progressElapsed,
    event |-> event, action |-> action, fetches |-> fetches,
    upDragging |-> upDragging, timedOut |-> timedOut,
    frameView |-> frameView, highlightedButton |-> highlightedButton,
    needsRedraw |-> needsRedraw,
    needsFullRedraw |-> needsFullRedraw,
    hasActiveDevice |-> hasActiveDevice,
    fingerAt |-> fingerAt,
    frameList |-> frameList,
    pushes |-> pushes,
    trackDuration |-> trackDuration,
    fault |-> fault,
    startedInDetail |-> startedInDetail,
    isStartingPlayback |-> isStartingPlayback,
    startRaised |-> startRaised,
    startingFrames |-> startingFrames,
    shortSteps |-> shortSteps ]

Assign(m) ==
  /\ variant' = m.variant
  /\ isTouching' = m.isTouching
  /\ isDragging' = m.isDragging
  /\ touchStartX' = m.touchStartX
  /\ touchStartY' = m.touchStartY
  /\ lastTouchX' = m.lastTouchX
  /\ lastTouchY' = m.lastTouchY
  /\ touchElapsed' = m.touchElapsed
  /\ monitorCount' = m.monitorCount
  /\ scrollOffset' = m.scrollOffset
  /\ maxScroll' = m.maxScroll
  /\ selectedMonitor' = m.selectedMonitor
  /\ lastScrollOffset' = m.lastScrollOffset
  /\ detailElapsed' = m.detailElapsed
  /\ updateElapsed' = m.updateElapsed
  /\ redrawElapsed' = m.redrawElapsed
  /\ footerElapsed' = m.footerElapsed
  /\ currentMode' = m.currentMode
  /\ modeChanged' = m.modeChanged
  /\ trackValid' = m.trackValid
  /\ trackPlaying' = m.trackPlaying
  /\ pollElapsed' = m.pollElapsed
  /\ progressElapsed' = m.progressElapsed
  /\ event' = m.event
  /\ action' = m.action
  /\ fetches' = m.fetches
  /\ upDragging' = m.upDragging
  /\ timedOut' = m.timedOut
  /\ frameView' = m.frameView
  /\ highlightedButton' = m.highlightedButton
  /\ needsRedraw' = m.needsRedraw
  /\ needsFullRedraw' = m.needsFullRedraw
  /\ hasActiveDevice' = m.hasActiveDevice
  /\ fingerAt' = m.fingerAt
  /\ frameList' = m.frameList
  /\ pushes' = m.pushes
  /\ trackDuration' = m.trackDuration
  /\ fault' = m.fault
  /\ startedInDetail' = m.startedInDetail
  /\ isStartingPlayback' = m.isStartingPlayback
  /\ startRaised' = m.startRaised
  /\ startingFrames' = m.startingFrames
  /\ shortSteps' = m.shortSteps

\* Time passes: every clock of the uptime monitor is dt older.
Elapse(m, dt) ==
  [m EXCEPT !.touchElapsed = Tick(@, dt, SWIPE_TIME),
            !.detailElapsed = Tick(@, dt, DETAIL_TIMEOUT + 1),
            !.updateElapsed = Tick(@, dt, UPDATE_INTERVAL + 1),
            !.redrawElapsed = Tick(@, dt, DETAIL_REDRAW + 1),
            !.footerElapsed = Tick(@, dt, FOOTER_INTERVAL + 1)]

\* Time passes: every clock the dual-mode sketch reads is dt older.
DualElapse(m, dt) ==
  [m EXCEPT !.touchElapsed = Tick(@, dt, SWIPE_TIME),
            !.updateElapsed = Tick(@, dt, UPTIME_UPDATE_INTERVAL + 1),
            !.pollElapsed = Tick(@, dt, SPOTIFY_API_POLL_INTERVAL + 1),
            !.progressElapsed = Tick(@, dt, SPOTIFY_PROGRESS_UPDATE + 1)]

\* The observation fields at the start of an iteration.
Begin(m) ==
  [m EXCEPT !.event = "none", !.action = "none", !.fetches = 0,
            !.upDragging = FALSE, !.timedOut = FALSE, !.pushes = << >>,
            !.fault = "none", !.startRaised = FALSE, !.startingFrames = 0]

\* The finger is where the poll saw it.
Observe(m, p) == IF p = NoTouch THEN m ELSE [m EXCEPT !.fingerAt = p]

\* lcd_PushColors(x, y, w, h, fb): the region of the buffer sent to the panel.
Push(m, x, y, w, h) == [m EXCEPT !.pushes = Append(@, << x, y, w, h >>)]

----------------------------------------------------------------------------
(* Uptime monitor: data provider *)

\* What one call of fetchMonitors() meets: a failed request (non-200 or a
\* parse error), or a parsed list of n records.
FetchFailed == -1
FetchResults == {FetchFailed} \cup ProviderSizes

\* fetchMonitors() counting every record of the answer.
FetchMonitors_Uncapped(m, r) ==
  IF r = FetchFailed
  THEN [m EXCEPT !.fetches = @ + 1]
  ELSE [m EXCEPT !.fetches = @ + 1, !.monitorCount = r]

\* fetchMonitors(): on success the list is replaced by at most MAX_MONITORS
\* records; on failure the previous list stays.
FetchMonitors(m, r) ==
  IF r = FetchFailed
  THEN [m EXCEPT !.fetches = @ + 1]
  ELSE [m EXCEPT !.fetches = @ + 1, !.monitorCount = Min(r, MAX_MONITORS)]

\* What the provider can answer: the HTTP status (negative when the request
\* did not get through), whether the body parses as JSON, and the "data" array
\* as the ids of its records in provider order.
HttpCodes == {200, 404, -1}
ListSizes == {0, 2, 5, 12, 13, 15}
ListStarts == {100, 200, 300}
ProviderLists == { [i \in 1..k |-> s + i] : k \in ListSizes, s \in ListStarts }
Answers == [code : HttpCodes, parses : BOOLEAN, data : ProviderLists]
\* No request has been made yet.
NotAsked == [code |-> 0, parses |-> FALSE, data |-> << >>]

\* monitors[] before the first fetch: no slot holds a record.
NoMonitors == [i \in 1..MAX_MONITORS |-> 0]

\* The two tests of fetchMonitors(): code == 200, then deserializeJson() == Ok.
AnswerResult(a) ==
  IF a.code = 200 /\ a.parses THEN Len(a.data) ELSE FetchFailed

\* The loop over the "data" array, n records stored so far: it stops at the
\* end of the array or when monitors[] is full, and a slot it does not reach
\* keeps its record.
RECURSIVE StoreMonitors(_, _, _)
StoreMonitors(mons, data, n) ==
  IF n >= Len(data) \/ n >= MAX_MONITORS
  THEN mons
  ELSE StoreMonitors([mons EXCEPT ![n + 1] = data[n + 1]], data, n + 1)

\* monitors[] after fetchMonitors() got the answer a.
FetchRecords(mons, a) ==
  IF AnswerResult(a) = FetchFailed THEN mons ELSE StoreMonitors(mons, a.data, 0)

----------------------------------------------------------------------------
(* Uptime monitor: rendering *)

MaxScrollOf(n) == Max(0, n * ROW_PITCH - LIST_VIEWPORT)

\* drawListView(): recomputes maxScroll, clamps scrollOffset, pushes the list.
DrawListView(m) ==
  LET ms == MaxScrollOf(m.monitorCount)
      so == IF m.scrollOffset > ms THEN ms
            ELSE IF m.scrollOffset < 0 THEN 0 ELSE m.scrollOffset
  IN Push([m EXCEPT !.maxScroll = ms, !.scrollOffset = so,
                    !.frameView = "list",
                    !.frameList = [message |-> m.monitorCount = 0,
                                   rows |-> m.monitorCount,
                                   bar |-> m.monitorCount > 6,
                                   offset |-> so]],
          0, 0, 180, 640)

\* drawDetailView(): draws nothing when the selection is not a valid index.
DrawDetailView(m) ==
  IF m.selectedMonitor < 0 \/ m.selectedMonitor >= m.monitorCount
  THEN m
  ELSE Push([m EXCEPT !.frameView = "detail"], 0, 0, 180, 640)

DrawUI(m) == IF m.selectedMonitor >= 0 THEN DrawDetailView(m) ELSE DrawListView(m)

DrawSplash(m) == Push([m EXCEPT !.frameView = "splash"], 0, 0, 180, 640)

\* connectWiFi(): the "Connecting..." splash, then the splash of the outcome.
ConnectWiFi(m) == DrawSplash(DrawSplash(m))

----------------------------------------------------------------------------
(* Uptime monitor: touch handler *)

\* A tap test that takes the long touches for the taps.
IsListTap_LongOnly(m) ==
  /\ m.touchElapsed > TAP_TIME
  /\ Abs(m.lastTouchY - m.touchStartY) < TAP_MOVE
  /\ Abs(m.lastTouchX - m.touchStartX) < TAP_MOVE

\* The touch-up of handleTouch() in list view is a tap.
IsListTap(m) ==
  /\ m.touchElapsed < TAP_TIME
  /\ Abs(m.lastTouchY - m.touchStartY) < TAP_MOVE
  /\ Abs(m.lastTouchX - m.touchStartX) < TAP_MOVE

\* A card index that forgets how far the list is scrolled.
CardIndex_Unscrolled(m) == CDiv(m.touchStartY - LIST_TOP, ROW_PITCH)

\* The card index handleTouch() computes for a tap in the list area.
CardIndex(m) == CDiv(m.touchStartY - LIST_TOP + m.scrollOffset, ROW_PITCH)

\* This poll ends a touch with a tap on the header, which fetches.
HeaderTap(m, p) ==
  /\ p = NoTouch /\ m.isTouching
  /\ m.selectedMonitor < 0
  /\ IsListTap(m)
  /\ ~(m.touchStartY > HEADER_BOTTOM /\ m.touchStartY < LIST_BOTTOM)
  /\ m.touchStartY < HEADER_BOTTOM

TouchStart(m, p) ==
  [m EXCEPT !.isTouching = TRUE,
            !.touchStartX = p[1], !.touchStartY = p[2],
            !.lastTouchX = p[1], !.lastTouchY = p[2],
            !.touchElapsed = 0,
            !.isDragging = FALSE,
            !.startedInDetail = m.selectedMonitor >= 0,
            !.event = "start"]

\* A touch move that takes the dragging flag from the current point alone.
TouchMove_Forgetful(m, p) ==
  LET deltaY == m.lastTouchY - p[2]
      drag == \/ Abs(p[2] - m.touchStartY) > MOVE_THRESHOLD
              \/ Abs(p[1] - m.touchStartX) > MOVE_THRESHOLD
  IN [m EXCEPT !.isDragging = drag,
               !.scrollOffset = IF drag /\ m.selectedMonitor < 0
                                THEN @ + deltaY ELSE @,
               !.lastTouchX = p[1], !.lastTouchY = p[2],
               !.event = "move"]

\* The touch-move branch of handleTouch().
TouchMove(m, p) ==
  LET deltaY == m.lastTouchY - p[2]
      drag == \/ m.isDragging
              \/ Abs(p[2] - m.touchStartY) > MOVE_THRESHOLD
              \/ Abs(p[1] - m.touchStartX) > MOVE_THRESHOLD
  IN [m EXCEPT !.isDragging = drag,
               !.scrollOffset = IF drag /\ m.selectedMonitor < 0
                                THEN @ + deltaY ELSE @,
               !.lastTouchX = p[1], !.lastTouchY = p[2],
               !.event = "move"]

\* A card test without the upper bound.
ValidCard_NoUpper(m) == CardIndex(m) >= 0

\* The tapped card exists.
ValidCard(m) == CardIndex(m) >= 0 /\ CardIndex(m) < m.monitorCount

\* A header refresh that does not stamp lastUpdate.
HeaderRefresh_NoStamp(m, r) ==
  DrawUI([FetchMonitors(DrawSplash(m), r) EXCEPT !.action = "refresh"])

\* Header tap: splash, fetch, stamp lastUpdate, redraw.
HeaderRefresh(m, r) ==
  DrawUI([FetchMonitors(DrawSplash(m), r)
            EXCEPT !.updateElapsed = 0, !.action = "refresh"])

\* The list-view branch of the touch-up.
ListTouchUp(m, r) ==
  IF ~IsListTap(m) THEN m
  ELSE IF m.touchStartY > HEADER_BOTTOM /\ m.touchStartY < LIST_BOTTOM
  THEN IF ValidCard(m)
       THEN DrawUI([m EXCEPT !.selectedMonitor = CardIndex(m),
                             !.detailElapsed = 0,
                             !.action = "select"])
       ELSE [m EXCEPT !.action = "miss"]
  ELSE IF m.touchStartY < HEADER_BOTTOM
  THEN HeaderRefresh(m, r)
  ELSE [m EXCEPT !.action = "miss"]

\* A detail-view touch-up that leaves the timer running.
DetailTouchUp_NoReset(m) == [m EXCEPT !.action = "reset"]

\* The detail-view branch of the touch-up: any touch restarts the timer.
DetailTouchUp(m) == [m EXCEPT !.detailElapsed = 0, !.action = "reset"]

TouchUp(m, r) ==
  LET u == IF m.selectedMonitor >= 0 THEN DetailTouchUp(m)
           ELSE ListTouchUp(m, r)
  IN [u EXCEPT !.isTouching = FALSE, !.isDragging = FALSE,
               !.event = "up", !.upDragging = m.isDragging,
               !.startedInDetail = FALSE]

\* handleTouch() of the uptime monitor; p is what readTouch() returned.
HandleTouch(m, p, r) ==
  IF p # NoTouch /\ ~m.isTouching THEN TouchStart(m, p)
  ELSE IF p # NoTouch /\ m.isTouching THEN TouchMove(m, p)
  ELSE IF p = NoTouch /\ m.isTouching THEN TouchUp(m, r)
  ELSE m

----------------------------------------------------------------------------
(* Uptime monitor: loop() after handleTouch() *)

\* Redraw if scrolling (list view).
LoopScroll(m) ==
  IF m.scrollOffset # m.lastScrollOffset /\ m.selectedMonitor < 0
  THEN LET d == DrawUI(m) IN [d EXCEPT !.lastScrollOffset = d.scrollOffset]
  ELSE m

\* A detail timeout that fires as soon as the timeout is reached.
LoopDetail_AtTimeout(m) ==
  IF m.selectedMonitor >= 0
  THEN LET a == IF m.redrawElapsed > DETAIL_REDRAW
                THEN [DrawUI(m) EXCEPT !.redrawElapsed = 0]
                ELSE m
       IN IF a.detailElapsed >= DETAIL_TIMEOUT
          THEN DrawUI([a EXCEPT !.selectedMonitor = -1, !.timedOut = TRUE])
          ELSE a
  ELSE m

\* Detail view: animate the progress bar, return to the list on timeout.
LoopDetail(m) ==
  IF m.selectedMonitor >= 0
  THEN LET a == IF m.redrawElapsed > DETAIL_REDRAW
                THEN [DrawUI(m) EXCEPT !.redrawElapsed = 0]
                ELSE m
       IN IF a.detailElapsed > DETAIL_TIMEOUT
          THEN DrawUI([a EXCEPT !.selectedMonitor = -1, !.timedOut = TRUE])
          ELSE a
  ELSE m

RefreshDue(m) == m.selectedMonitor < 0 /\ m.updateElapsed > UPDATE_INTERVAL

\* Auto refresh (only in list view); up: WiFi is connected when the refresh
\* starts, else connectWiFi() runs first; NoWiFi: the reconnect failed, no
\* fetch.
NoWiFi == -2
LoopRefresh(m, up, r) ==
  IF RefreshDue(m)
  THEN LET c == IF up THEN m ELSE ConnectWiFi(m)
           f == IF r = NoWiFi THEN c ELSE FetchMonitors(c, r)
       IN [DrawUI(f) EXCEPT !.updateElapsed = 0]
  ELSE m

\* Update footer time (only in list view).
LoopFooter(m) ==
  IF m.footerElapsed > FOOTER_INTERVAL /\ m.selectedMonitor < 0
  THEN [DrawUI(m) EXCEPT !.footerElapsed = 0]
  ELSE m

----------------------------------------------------------------------------
(* Time steps *)

\* The steps an iteration may take, by the short steps already used.
StepsFrom(m) == IF m.shortSteps < MaxShortSteps
                THEN ShortSteps \cup LongSteps ELSE LongSteps

DualStepsFrom(m) == IF m.shortSteps < MaxDualShortSteps
                    THEN ShortSteps \cup DualLongSteps ELSE DualLongSteps

CountStep(m, dt) ==
  IF dt \in ShortSteps THEN [m EXCEPT !.shortSteps = @ + 1] ELSE m

----------------------------------------------------------------------------
(* Uptime monitor: one loop() iteration *)

\* One iteration in which the controller reports the sample s.
UptimePoll(s) ==
  /\ variant = "uptime"
  /\ \E dt \in StepsFrom(Cur) :
       \E p \in {ReadTouch(s)} :
       \E m1 \in {Observe(Begin(Elapse(CountStep(Cur, dt), dt)), p)} :
       \E r1 \in (IF HeaderTap(m1, p) THEN FetchResults ELSE {FetchFailed}) :
       \E m2 \in {LoopDetail(LoopScroll(HandleTouch(m1, p, r1)))} :
       \E r2 \in (IF RefreshDue(m2)
                  THEN FetchResults \cup {NoWiFi} ELSE {NoWiFi}) :
       \E up \in (IF RefreshDue(m2) /\ r2 # NoWiFi
                  THEN BOOLEAN ELSE {FALSE}) :
         Assign(LoopFooter(LoopRefresh(m2, up, r2)))
  /\ UNCHANGED << decoderVars, rasterVars, providerVars, artVars, paintVars >>

UptimeLoop == \E s \in Samples : UptimePoll(s)

\* The state loop() first runs in: setup() has fetched once and drawn the list.
UptimeInit ==
  \E r \in FetchResults, boot \in BootTimes :
    LET n == IF r = FetchFailed THEN 0 ELSE Min(r, MAX_MONITORS)
    IN /\ variant = "uptime"
       /\ isTouching = FALSE /\ isDragging = FALSE
       /\ touchStartX = -1 /\ touchStartY = -1
       /\ lastTouchX = -1 /\ lastTouchY = -1
       /\ touchElapsed = Tick(0, boot, SWIPE_TIME)
       /\ monitorCount = n
       /\ scrollOffset = 0
       /\ maxScroll = MaxScrollOf(n)
       /\ selectedMonitor = -1
       /\ lastScrollOffset = -1
       /\ detailElapsed = Tick(0, boot, DETAIL_TIMEOUT + 1)
       /\ updateElapsed = 0
       /\ redrawElapsed = Tick(0, boot, DETAIL_REDRAW + 1)
       /\ footerElapsed = Tick(0, boot, FOOTER_INTERVAL + 1)
       /\ currentMode = "uptime" /\ modeChanged = FALSE
       /\ trackValid = FALSE /\ trackPlaying = FALSE
       /\ pollElapsed = 0 /\ progressElapsed = 0
       /\ event = "none" /\ action = "none" /\ fetches = 0
       /\ upDragging = FALSE /\ timedOut = FALSE
       /\ frameView = "list"
       /\ highlightedButton = -1
       /\ needsRedraw = TRUE
       /\ needsFullRedraw = TRUE
       /\ hasActiveDevice = FALSE
       /\ fingerAt = << -1, -1 >>
       /\ frameList = [message |-> n = 0, rows |-> n, bar |-> n > 6,
                       offset |-> 0]
       /\ pushes = << >>
       /\ trackDuration = 0
       /\ fault = "none"
       /\ startedInDetail = FALSE
       /\ isStartingPlayback = FALSE
       /\ startRaised = FALSE
       /\ startingFrames = 0
       /\ shortSteps = 0
       /\ touchBuf = NoReport /\ touchOut = NoTouch
       /\ drawCall = NoCall /\ fbWrites = {}
       /\ monitors = NoMonitors /\ answer = NotAsked
       /\ albumArtUrl = "" /\ lastAlbumArtUrl = ""
       /\ albumArtLoaded = FALSE
       /\ fb = BlankBuffer /\ paintLog = << >>

----------------------------------------------------------------------------
(* Dual-mode display: providers *)

\* fetchMonitors() of the dual-mode sketch (returns at once without WiFi,
\* which changes as much as a failed request).
DualFetchMonitors(m, r) == FetchMonitors(m, r)

\* What fetchCurrentlyPlaying() meets: a track playing or paused (200), a
\* playing item whose duration_ms is 0 or absent ("untimed"), no track (204),
\* or a failed request / token refresh.
PlayerResults == {"playing", "paused", "untimed", "nothing", "failed"}

\* The duration_ms of the item of an answer.
DurationOf(r) == IF r = "untimed" THEN 0 ELSE 240000

FetchCurrentlyPlaying(m, r) ==
  IF r \in {"playing", "untimed"}
  THEN [m EXCEPT !.trackValid = TRUE, !.trackPlaying = TRUE,
                 !.trackDuration = DurationOf(r)]
  ELSE IF r = "paused"
  THEN [m EXCEPT !.trackValid = TRUE, !.trackPlaying = FALSE,
                 !.trackDuration = DurationOf(r)]
  ELSE IF r = "nothing" THEN [m EXCEPT !.trackValid = FALSE]
  ELSE m

\* spotifyPlayPause(): flips isPlaying when the request is accepted.
SpotifyPlayPause(m, ok) ==
  IF ok THEN [m EXCEPT !.trackPlaying = ~@] ELSE m

----------------------------------------------------------------------------
(* Dual-mode display: rendering *)

\* drawUptimeMode(): a message without monitors, else the first rows.
DrawUptimeMode(m) ==
  Push([m EXCEPT !.frameView = "uptime",
                 !.frameList = [message |-> m.monitorCount = 0,
                                rows |-> Min(m.monitorCount, DUAL_MAX_ROWS),
                                bar |-> FALSE, offset |-> 0]],
       0, 0, 180, 640)

\* The fill of the progress bar is a quotient by currentTrack.durationMs. A
\* zero divisor is undefined: trap tells whether the divide exception of the
\* chip stops the sketch there, or the code goes on with some quotient.
DivideByDuration(m, trap) ==
  IF m.trackDuration # 0 THEN m
  ELSE [m EXCEPT !.fault = IF trap THEN "trap" ELSE "garbage"]

\* drawSpotifyMode(): the "not playing" screen or the player, one push each.
DrawSpotifyMode(m, trap) ==
  IF ~m.trackValid
  THEN Push([m EXCEPT !.frameView = "spotify"], 0, 0, 180, 640)
  ELSE LET d == DivideByDuration(m, trap)
       IN IF d.fault = "trap" THEN d
          ELSE Push([d EXCEPT !.frameView = "spotify"], 0, 0, 180, 640)

----------------------------------------------------------------------------
(* Dual-mode display: touch handler *)

OtherMode(mode) == IF mode = "uptime" THEN "spotify" ELSE "uptime"

\* A mode-switch test without the time limit.
IsSwipe_Untimed(m) ==
  /\ m.touchStartY < SWIPE_ZONE_HEIGHT
  /\ m.lastTouchY - m.touchStartY > SWIPE_THRESHOLD

\* The mode-switch test of the touch-up.
IsSwipe(m) ==
  /\ m.touchStartY < SWIPE_ZONE_HEIGHT
  /\ m.lastTouchY - m.touchStartY > SWIPE_THRESHOLD
  /\ m.touchElapsed < SWIPE_TIME

\* The tap test of the touch-up.
IsDualTap(m) == m.touchElapsed < TAP_TIME /\ ~m.isDragging

\* This poll ends a touch with a tap that fetches the monitors.
DualHeaderTap(m, p) ==
  /\ p = NoTouch /\ m.isTouching
  /\ ~IsSwipe(m) /\ IsDualTap(m)
  /\ m.currentMode = "uptime"
  /\ m.touchStartY < DUAL_HEADER_BOTTOM

\* This poll ends a touch with a tap on the play/pause button.
DualPlayTap(m, p) ==
  /\ p = NoTouch /\ m.isTouching
  /\ ~IsSwipe(m) /\ IsDualTap(m)
  /\ m.currentMode = "spotify"
  /\ m.touchStartY >= 370 /\ m.touchStartY <= 410
  /\ m.touchStartX >= 15 + 65 /\ m.touchStartX < 15 + 115

DualTouchStart(m, p) ==
  [m EXCEPT !.isTouching = TRUE,
            !.touchStartX = p[1], !.touchStartY = p[2],
            !.lastTouchX = p[1], !.lastTouchY = p[2],
            !.touchElapsed = 0,
            !.isDragging = FALSE,
            !.event = "start"]

\* A touch move that switches the mode as soon as the finger is far enough
\* down, without waiting for the touch-up.
DualTouchMove_Eager(m, p) ==
  LET n == [m EXCEPT !.lastTouchX = p[1], !.lastTouchY = p[2],
                     !.isDragging = \/ @
                                    \/ Abs(p[2] - m.touchStartY) > MOVE_THRESHOLD
                                    \/ Abs(p[1] - m.touchStartX) > MOVE_THRESHOLD,
                     !.event = "move"]
  IN IF IsSwipe(n)
     THEN [n EXCEPT !.currentMode = OtherMode(@), !.modeChanged = TRUE]
     ELSE n

\* The touch-move branch of handleTouch().
DualTouchMove(m, p) ==
  [m EXCEPT !.lastTouchX = p[1], !.lastTouchY = p[2],
            !.isDragging = \/ @
                           \/ Abs(p[2] - m.touchStartY) > MOVE_THRESHOLD
                           \/ Abs(p[1] - m.touchStartX) > MOVE_THRESHOLD,
            !.event = "move"]

\* The mode-specific handling of a touch-up that is not a swipe.
DualTap(m, r, ok) ==
  IF ~IsDualTap(m) THEN m
  ELSE IF m.currentMode = "spotify"
  THEN IF /\ m.touchStartY >= 370 /\ m.touchStartY <= 410
          /\ m.touchStartX >= 15 + 65 /\ m.touchStartX < 15 + 115
       THEN [SpotifyPlayPause(m, ok) EXCEPT !.modeChanged = TRUE,
                                            !.action = "playpause"]
       ELSE [m EXCEPT !.action = "miss"]
  ELSE IF m.touchStartY < DUAL_HEADER_BOTTOM
       THEN [DualFetchMonitors(m, r) EXCEPT !.updateElapsed = 0,
                                            !.modeChanged = TRUE,
                                            !.action = "refresh"]
       ELSE [m EXCEPT !.action = "miss"]

\* A mode switch that starts the mode it enters from scratch.
ModeSwitch_Fresh(m) ==
  [m EXCEPT !.currentMode = OtherMode(@),
            !.modeChanged = TRUE,
            !.isTouching = FALSE,
            !.monitorCount = 0,
            !.trackValid = FALSE]

\* The swipe branch of the touch-up: the other mode becomes the active one.
ModeSwitch(m) ==
  [m EXCEPT !.currentMode = OtherMode(@),
            !.modeChanged = TRUE,
            !.isTouching = FALSE]

DualTouchUp(m, r, ok) ==
  IF IsSwipe(m)
  THEN [ModeSwitch(m) EXCEPT !.action = "toggle",
                             !.event = "up", !.upDragging = m.isDragging]
  ELSE [DualTap(m, r, ok) EXCEPT !.isTouching = FALSE,
                                 !.isDragging = FALSE,
                                 !.event = "up", !.upDragging = m.isDragging]

\* handleTouch() of the dual-mode sketch.
DualHandleTouch(m, p, r, ok) ==
  IF p # NoTouch /\ ~m.isTouching THEN DualTouchStart(m, p)
  ELSE IF p # NoTouch /\ m.isTouching THEN DualTouchMove(m, p)
  ELSE IF p = NoTouch /\ m.isTouching THEN DualTouchUp(m, r, ok)
  ELSE m

----------------------------------------------------------------------------
(* Dual-mode display: loop() after handleTouch() *)

DualUptimeDue(m) ==
  m.currentMode = "uptime" /\ m.updateElapsed > UPTIME_UPDATE_INTERVAL

DualSpotifyDue(m) ==
  m.currentMode = "spotify" /\ m.pollElapsed > SPOTIFY_API_POLL_INTERVAL

\* The branch of loop() for the active mode; r is what the monitor fetch
\* meets, t what the player fetch meets, NoWiFi when WiFi is down.
DualUpdate(m, r, t, trap) ==
  IF m.currentMode = "uptime"
  THEN LET a == IF m.updateElapsed > UPTIME_UPDATE_INTERVAL
                THEN [(IF r = NoWiFi THEN m ELSE DualFetchMonitors(m, r))
                        EXCEPT !.updateElapsed = 0, !.modeChanged = TRUE]
                ELSE m
       IN IF a.modeChanged
          THEN [DrawUptimeMode(a) EXCEPT !.modeChanged = FALSE]
          ELSE a
  ELSE LET a == IF m.pollElapsed > SPOTIFY_API_POLL_INTERVAL
                THEN [(IF t = "nowifi" THEN m ELSE FetchCurrentlyPlaying(m, t))
                        EXCEPT !.pollElapsed = 0, !.modeChanged = TRUE]
                ELSE m
           b == IF a.progressElapsed > SPOTIFY_PROGRESS_UPDATE
                THEN [a EXCEPT !.progressElapsed = 0, !.modeChanged = TRUE]
                ELSE a
       IN IF b.modeChanged
          THEN LET d == DrawSpotifyMode(b, trap)
               IN IF d.fault = "trap" THEN d
                  ELSE [d EXCEPT !.modeChanged = FALSE]
          ELSE b

----------------------------------------------------------------------------
(* Dual-mode display: one loop() iteration *)

\* One iteration in which the controller reports the sample s.
DualPoll(s) ==
  /\ variant = "dual"
  /\ fault # "trap"
  /\ \E dt \in DualStepsFrom(Cur) :
       \E p \in {ReadTouch(s)} :
       \E m1 \in {Observe(Begin(DualElapse(CountStep(Cur, dt), dt)), p)} :
       \E r1 \in (IF DualHeaderTap(m1, p) THEN FetchResults ELSE {FetchFailed}),
          ok \in (IF DualPlayTap(m1, p) THEN BOOLEAN ELSE {FALSE}) :
       \E m2 \in {DualHandleTouch(m1, p, r1, ok)} :
       \E r2 \in (IF DualUptimeDue(m2)
                  THEN FetchResults \cup {NoWiFi} ELSE {NoWiFi}),
          t \in (IF DualSpotifyDue(m2)
                 THEN PlayerResults \cup {"nowifi"} ELSE {"nowifi"}) :
       \E m3 \in {DualUpdate(m2, r2, t, trap) : trap \in BOOLEAN} :
         Assign(m3)
  /\ UNCHANGED << decoderVars, rasterVars, providerVars, artVars, paintVars >>

DualLoop == \E s \in Samples : DualPoll(s)

\* The state loop() first runs in: setup() has fetched both providers once
\* and asked for the first frame.
DualInit ==
  \E r \in FetchResults, t \in PlayerResults, boot \in BootTimes :
    LET n == IF r = FetchFailed THEN 0 ELSE Min(r, MAX_MONITORS)
    IN /\ variant = "dual"
       /\ isTouching = FALSE /\ isDragging = FALSE
       /\ touchStartX = -1 /\ touchStartY = -1
       /\ lastTouchX = -1 /\ lastTouchY = -1
       /\ touchElapsed = Tick(0, boot, SWIPE_TIME)
       /\ monitorCount = n
       /\ scrollOffset = 0
       /\ maxScroll = 0
       /\ selectedMonitor = -1
       /\ lastScrollOffset = -1
       /\ detailElapsed = Tick(0, boot, DETAIL_TIMEOUT + 1)
       /\ updateElapsed = 0
       /\ redrawElapsed = Tick(0, boot, DETAIL_REDRAW + 1)
       /\ footerElapsed = Tick(0, boot, FOOTER_INTERVAL + 1)
       /\ currentMode = "uptime" /\ modeChanged = TRUE
       /\ trackValid = (t \in {"playing", "paused", "untimed"})
       /\ trackPlaying = (t \in {"playing", "untimed"})
       /\ pollElapsed = Tick(0, boot, SPOTIFY_API_POLL_INTERVAL + 1)
       /\ progressElapsed = Tick(0, boot, SPOTIFY_PROGRESS_UPDATE + 1)
       /\ event = "none" /\ action = "none" /\ fetches = 0
       /\ upDragging = FALSE /\ timedOut = FALSE
       /\ frameView = "splash"
       /\ highlightedButton = -1
       /\ needsRedraw = TRUE
       /\ needsFullRedraw = TRUE
       /\ hasActiveDevice = FALSE
       /\ fingerAt = << -1, -1 >>
       /\ frameList = NoList
       /\ pushes = << >>
       /\ trackDuration = (IF (t \in {"playing", "paused", "untimed"}) THEN DurationOf(t) ELSE 0)
       /\ fault = "none"
       /\ startedInDetail = FALSE
       /\ isStartingPlayback = FALSE
       /\ startRaised = FALSE
       /\ startingFrames = 0
       /\ shortSteps = 0
       /\ touchBuf = NoReport /\ touchOut = NoTouch
       /\ drawCall = NoCall /\ fbWrites = {}
       /\ monitors = NoMonitors /\ answer = NotAsked
       /\ albumArtUrl = "" /\ lastAlbumArtUrl = ""
       /\ albumArtLoaded = FALSE
       /\ fb = BlankBuffer /\ paintLog = << >>

----------------------------------------------------------------------------
(* Spotify player (examples/spotify_player) *)

\* fetchCurrentlyPlaying(): 200 gives a track, 204 none, anything else
\* leaves the track as it was.
PlayerFetch(m, t) ==
  IF t \in {"playing", "untimed"}
  THEN [m EXCEPT !.trackValid = TRUE, !.trackPlaying = TRUE,
                 !.trackDuration = DurationOf(t)]
  ELSE IF t = "paused"
  THEN [m EXCEPT !.trackValid = TRUE, !.trackPlaying = FALSE,
                 !.trackDuration = DurationOf(t)]
  ELSE IF t = "nothing" THEN [m EXCEPT !.trackValid = FALSE]
  ELSE m

PlayerFetched(t) == t \in {"playing", "paused", "untimed"}

\* spotifyPlayPause(): flips isPlaying when the request is accepted.
PlayerPlayPause(m, ok) ==
  IF ok THEN [m EXCEPT !.trackPlaying = ~@] ELSE m

\* spotifyNext() and spotifyPrevious(): an accepted request is followed by a
\* fetch of the new track.
PlayerSkip(m, ok, t) == IF ok THEN PlayerFetch(m, t) ELSE m

\* drawUI(): the placeholder without a track, else the whole player screen.
PlayerDrawUI(m, trap) ==
  IF ~m.trackValid
  THEN Push([m EXCEPT !.frameView = "nothing"], 0, 0, 180, 640)
  ELSE LET d == DivideByDuration(m, trap)
       IN IF d.fault = "trap" THEN d
          ELSE Push([d EXCEPT !.frameView = "player"], 0, 0, 180, 640)

PlayerTouchStart(m, p) ==
  [m EXCEPT !.isTouching = TRUE,
            !.touchStartX = p[1], !.touchStartY = p[2],
            !.touchElapsed = 0,
            !.event = "start"]

\* The button of the control row under the touch start: 0 previous, 1
\* play/pause, 2 next, -1 the gaps.
PlayerButton(m) ==
  LET startX == (SCREEN_W - (3 * PLAYER_BUTTON_W + 2 * PLAYER_BUTTON_GAP)) \div 2
  IN IF m.touchStartX >= startX /\ m.touchStartX < startX + PLAYER_BUTTON_W
     THEN 0
     ELSE IF /\ m.touchStartX >= startX + PLAYER_BUTTON_W + PLAYER_BUTTON_GAP
             /\ m.touchStartX < startX + 2 * PLAYER_BUTTON_W + PLAYER_BUTTON_GAP
     THEN 1
     ELSE IF /\ m.touchStartX >= startX + 2 * (PLAYER_BUTTON_W + PLAYER_BUTTON_GAP)
             /\ m.touchStartX < startX + 3 * PLAYER_BUTTON_W + 2 * PLAYER_BUTTON_GAP
     THEN 2
     ELSE -1

PlayerInControls(m) ==
  m.touchStartY >= PLAYER_CONTROLS_TOP /\ m.touchStartY <= PLAYER_CONTROLS_BOTTOM

\* The touch-up branch of handleTouch(): a touch shorter than the tap time
\* acts on the place it started at.
PlayerTouchUp(m, ok, t) ==
  LET u == IF m.touchElapsed >= PLAYER_TAP_TIME THEN m
           ELSE IF PlayerInControls(m)
           THEN IF PlayerButton(m) = 0
                THEN [PlayerSkip(m, ok, t) EXCEPT !.needsRedraw = TRUE,
                                                  !.action = "previous"]
                ELSE IF PlayerButton(m) = 1
                THEN [PlayerPlayPause(m, ok) EXCEPT !.needsRedraw = TRUE,
                                                    !.action = "playpause"]
                ELSE IF PlayerButton(m) = 2
                THEN [PlayerSkip(m, ok, t) EXCEPT !.needsRedraw = TRUE,
                                                  !.action = "next"]
                ELSE [m EXCEPT !.action = "miss"]
           ELSE IF m.touchStartY < PLAYER_ART_SIZE
           THEN [PlayerFetch(m, t) EXCEPT !.needsRedraw = TRUE,
                                          !.action = "refresh"]
           ELSE [m EXCEPT !.action = "miss"]
  IN [u EXCEPT !.isTouching = FALSE, !.event = "up"]

\* handleTouch() of the player: nothing is done while the finger stays down.
PlayerHandleTouch(m, p, ok, t) ==
  IF p # NoTouch /\ ~m.isTouching THEN PlayerTouchStart(m, p)
  ELSE IF p = NoTouch /\ m.isTouching THEN PlayerTouchUp(m, ok, t)
  ELSE m

PlayerPollDue(m) == m.pollElapsed > PLAYER_API_POLL_INTERVAL

\* loop() after handleTouch(): poll, progress tick, one redraw when dirty.
PlayerUpdate(m, t, trap) ==
  LET a == IF PlayerPollDue(m)
           THEN [PlayerFetch(m, t) EXCEPT !.needsRedraw = @ \/ PlayerFetched(t),
                                          !.pollElapsed = 0]
           ELSE m
      b == IF a.progressElapsed > PLAYER_PROGRESS_UPDATE
           THEN [a EXCEPT !.needsRedraw = @ \/ a.trackValid,
                          !.progressElapsed = 0]
           ELSE a
  IN IF b.needsRedraw
     THEN LET d == PlayerDrawUI(b, trap)
          IN IF d.fault = "trap" THEN d ELSE [d EXCEPT !.needsRedraw = FALSE]
     ELSE b

\* Time passes: every clock the players read is dt older.
PlayerElapse(m, dt) ==
  [m EXCEPT !.touchElapsed = Tick(@, dt, PLAYER_TAP_TIME),
            !.pollElapsed = Tick(@, dt, PLAYER_API_POLL_INTERVAL + 1),
            !.progressElapsed = Tick(@, dt, PLAYER_PROGRESS_UPDATE + 1)]

PlayerLoop ==
  /\ variant = "player"
  /\ fault # "trap"
  /\ \E s \in PlayerSamples, dt \in StepsFrom(Cur) :
       \E p \in {ReadTouch(s)} :
       \E m1 \in {Observe(Begin(PlayerElapse(CountStep(Cur, dt), dt)), p)} :
       \E up \in {p = NoTouch /\ m1.isTouching
                                /\ m1.touchElapsed < PLAYER_TAP_TIME} :
       \E ok \in (IF up /\ PlayerInControls(m1) /\ PlayerButton(m1) >= 0
                  THEN BOOLEAN ELSE {FALSE}),
          t1 \in (IF up THEN PlayerResults ELSE {"failed"}) :
       \E m2 \in {PlayerHandleTouch(m1, p, ok, t1)} :
       \E t2 \in (IF PlayerPollDue(m2) THEN PlayerResults ELSE {"failed"}) :
       \E m3 \in {PlayerUpdate(m2, t2, trap) : trap \in BOOLEAN} :
         Assign(m3)
  /\ UNCHANGED << decoderVars, rasterVars, providerVars, artVars, paintVars >>

\* The state loop() first runs in: setup() has fetched once and drawn the
\* screen; lastApiPoll still has its initializer.
PlayerInit ==
  \E t \in PlayerResults, boot \in BootTimes, trap \in BOOLEAN :
    LET m == PlayerDrawUI(PlayerFetch([trackValid |-> FALSE, trackPlaying |-> FALSE,
                                       trackDuration |-> 0, fault |-> "none",
                                       frameView |-> "splash", pushes |-> << >>], t),
                          trap)
    IN /\ variant = "player"
       /\ trackValid = m.trackValid /\ trackPlaying = m.trackPlaying
       /\ hasActiveDevice = FALSE
       /\ frameView = m.frameView
       /\ pollElapsed = Tick(0, boot, PLAYER_API_POLL_INTERVAL + 1)
       /\ isTouching = FALSE /\ isDragging = FALSE
       /\ touchStartX = -1 /\ touchStartY = -1
       /\ lastTouchX = -1 /\ lastTouchY = -1
       /\ touchElapsed = Tick(0, boot, PLAYER_TAP_TIME)
       /\ monitorCount = 0 /\ scrollOffset = 0 /\ maxScroll = 0
       /\ selectedMonitor = -1 /\ lastScrollOffset = -1
       /\ detailElapsed = 0 /\ updateElapsed = 0
       /\ redrawElapsed = 0 /\ footerElapsed = 0
       /\ currentMode = "uptime" /\ modeChanged = FALSE
       /\ progressElapsed = Tick(0, boot, PLAYER_PROGRESS_UPDATE + 1)
       /\ event = "none" /\ action = "none" /\ fetches = 0
       /\ upDragging = FALSE /\ timedOut = FALSE
       /\ highlightedButton = -1
       /\ needsRedraw = TRUE
       /\ needsFullRedraw = TRUE
       /\ fingerAt = << -1, -1 >>
       /\ frameList = NoList
       /\ pushes = << >>
       /\ trackDuration = m.trackDuration
       /\ fault = m.fault
       /\ startedInDetail = FALSE
       /\ isStartingPlayback = FALSE
       /\ startRaised = FALSE
       /\ startingFrames = 0
       /\ shortSteps = 0
       /\ touchBuf = NoReport /\ touchOut = NoTouch
       /\ drawCall = NoCall /\ fbWrites = {}
       /\ monitors = NoMonitors /\ answer = NotAsked
       /\ albumArtUrl = "" /\ lastAlbumArtUrl = ""
       /\ albumArtLoaded = FALSE
       /\ fb = BlankBuffer /\ paintLog = << >>

----------------------------------------------------------------------------
(* Spotify player v2 (part_001) *)

\* What fetchPlayerState() meets: a track playing or paused on a device, a
\* device without a track, no device (204), or a failed request.
V2Results == {"playing", "paused", "untimed", "idle", "nodevice", "failed"}

V2Fetch(m, t) ==
  IF t \in {"playing", "untimed"}
  THEN [m EXCEPT !.trackValid = TRUE, !.trackPlaying = TRUE,
                 !.hasActiveDevice = TRUE, !.trackDuration = DurationOf(t)]
  ELSE IF t = "paused"
  THEN [m EXCEPT !.trackValid = TRUE, !.trackPlaying = FALSE,
                 !.hasActiveDevice = TRUE, !.trackDuration = DurationOf(t)]
  ELSE IF t = "idle"
  THEN [m EXCEPT !.trackValid = FALSE, !.hasActiveDevice = TRUE]
  ELSE IF t = "nodevice"
  THEN [m EXCEPT !.trackValid = FALSE, !.hasActiveDevice = FALSE]
  ELSE m

\* startFavorites(): isStartingPlayback is raised when the request starts and
\* lowered before the function returns; an accepted request is followed by a
\* fetch and asks for a full redraw; ok is FALSE without a device or an
\* accepting API.
V2StartFavorites(m, ok, t) ==
  LET a == [m EXCEPT !.isStartingPlayback = TRUE, !.startRaised = TRUE,
                     !.needsRedraw = TRUE]
      b == [a EXCEPT !.isStartingPlayback = FALSE]
  IN IF ok THEN [V2Fetch(b, t) EXCEPT !.needsFullRedraw = TRUE] ELSE b

\* spotifyPlayPause(): starts the favorites when nothing can be resumed.
V2PlayPause(m, ok, t) ==
  IF ~m.trackValid \/ ~m.hasActiveDevice THEN V2StartFavorites(m, ok, t)
  ELSE IF ok THEN [m EXCEPT !.trackPlaying = ~@]
  ELSE m

\* spotifyNext() and spotifyPrevious().
V2Skip(m, ok, t) == IF ok THEN V2Fetch(m, t) ELSE m

\* drawUI(): the "tap to play" screen without a track, else the player.
V2DrawUI(m) ==
  Push(IF ~m.trackValid
       THEN [m EXCEPT !.frameView = "nothing",
                      !.startingFrames = IF m.isStartingPlayback
                                         THEN @ + 1 ELSE @]
       ELSE [m EXCEPT !.frameView = "player"],
       0, 0, 180, 640)

InCircle(x, y, cx, cy, r) ==
  (x - cx) * (x - cx) + (y - cy) * (y - cy) < r * r

\* The button under a touch start: 3 the big play button of the empty
\* screen, 0 previous, 1 play/pause, 2 next, -1 none.
V2Highlight(m, p) ==
  LET centerX == 90
      prevCX == centerX - BTN_PLAY_SIZE \div 2 - BTN_SPACING - BTN_SIZE \div 2
      nextCX == centerX + BTN_PLAY_SIZE \div 2 + BTN_SPACING + BTN_SIZE \div 2
  IN IF ~m.trackValid
     THEN IF InCircle(p[1], p[2], 90, 280, 50) THEN 3 ELSE -1
     ELSE IF InCircle(p[1], p[2], nextCX, CONTROLS_Y + BTN_SIZE \div 2,
                      BTN_SIZE \div 2)
     THEN 2
     ELSE IF InCircle(p[1], p[2], centerX, CONTROLS_Y + BTN_PLAY_SIZE \div 2,
                      BTN_PLAY_SIZE \div 2)
     THEN 1
     ELSE IF InCircle(p[1], p[2], prevCX, CONTROLS_Y + BTN_SIZE \div 2,
                      BTN_SIZE \div 2)
     THEN 0
     ELSE -1

V2TouchStart(m, p) ==
  [m EXCEPT !.isTouching = TRUE,
            !.touchStartX = p[1], !.touchStartY = p[2],
            !.touchElapsed = 0,
            !.highlightedButton = V2Highlight(m, p),
            !.needsRedraw = @ \/ V2Highlight(m, p) >= 0,
            !.event = "start"]

\* A touch-up that draws at once instead of leaving the frame to loop().
V2TouchUp_Drawing(m, ok, t) ==
  LET u == IF m.touchElapsed >= V2_TAP_TIME THEN m
           ELSE IF m.highlightedButton = 3
           THEN [V2StartFavorites(m, ok, t) EXCEPT !.action = "favorites"]
           ELSE IF m.highlightedButton = 0
           THEN [V2Skip(m, ok, t) EXCEPT !.action = "previous"]
           ELSE IF m.highlightedButton = 1
           THEN [V2PlayPause(m, ok, t) EXCEPT !.action = "playpause"]
           ELSE IF m.highlightedButton = 2
           THEN [V2Skip(m, ok, t) EXCEPT !.action = "next"]
           ELSE IF m.touchStartY < ALBUM_ART_SIZE /\ m.trackValid
           THEN [V2Fetch(m, t) EXCEPT !.action = "refresh"]
           ELSE [m EXCEPT !.action = "miss"]
  IN V2DrawUI([u EXCEPT !.highlightedButton = -1, !.isTouching = FALSE,
                        !.needsRedraw = TRUE, !.event = "up"])

\* The touch-up branch of handleTouch(): a touch shorter than the tap time
\* acts on the button highlighted when it started.
V2TouchUp(m, ok, t) ==
  LET u == IF m.touchElapsed >= V2_TAP_TIME THEN m
           ELSE IF m.highlightedButton = 3
           THEN [V2StartFavorites(m, ok, t) EXCEPT !.action = "favorites"]
           ELSE IF m.highlightedButton = 0
           THEN [V2Skip(m, ok, t) EXCEPT !.action = "previous"]
           ELSE IF m.highlightedButton = 1
           THEN [V2PlayPause(m, ok, t) EXCEPT !.action = "playpause"]
           ELSE IF m.highlightedButton = 2
           THEN [V2Skip(m, ok, t) EXCEPT !.action = "next"]
           ELSE IF m.touchStartY < ALBUM_ART_SIZE /\ m.trackValid
           THEN [V2Fetch(m, t) EXCEPT !.action = "refresh"]
           ELSE [m EXCEPT !.action = "miss"]
  IN [u EXCEPT !.highlightedButton = -1, !.isTouching = FALSE,
               !.needsRedraw = TRUE, !.event = "up"]

\* handleTouch() of player v2: nothing is done while the finger stays down.
V2HandleTouch(m, p, ok, t) ==
  IF p # NoTouch /\ ~m.isTouching THEN V2TouchStart(m, p)
  ELSE IF p = NoTouch /\ m.isTouching THEN V2TouchUp(m, ok, t)
  ELSE m

V2PollDue(m) == m.pollElapsed > PLAYER_API_POLL_INTERVAL

\* loop() after handleTouch(): poll, progress tick, one redraw when dirty.
V2Update(m, t) ==
  LET a == IF V2PollDue(m)
           THEN LET f == V2Fetch(m, t)
                IN [f EXCEPT !.needsFullRedraw = @ \/ (m.trackValid # f.trackValid),
                             !.needsRedraw = TRUE,
                             !.pollElapsed = 0]
           ELSE m
      b == IF a.progressElapsed > PLAYER_PROGRESS_UPDATE
           THEN [a EXCEPT !.needsRedraw = @ \/ (a.trackValid /\ a.trackPlaying),
                          !.progressElapsed = 0]
           ELSE a
  IN IF b.needsRedraw \/ b.needsFullRedraw
     THEN [V2DrawUI(b) EXCEPT !.needsRedraw = FALSE, !.needsFullRedraw = FALSE]
     ELSE b

V2Loop ==
  /\ variant = "playerv2"
  /\ \E s \in PlayerSamples, dt \in StepsFrom(Cur) :
       \E p \in {ReadTouch(s)} :
       \E m1 \in {Observe(Begin(PlayerElapse(CountStep(Cur, dt), dt)), p)} :
       \E up \in {p = NoTouch /\ m1.isTouching /\ m1.touchElapsed < V2_TAP_TIME} :
       \E ok \in (IF up /\ m1.highlightedButton >= 0 THEN BOOLEAN ELSE {FALSE}),
          t1 \in (IF up THEN V2Results ELSE {"failed"}) :
       \E m2 \in {V2HandleTouch(m1, p, ok, t1)} :
       \E t2 \in (IF V2PollDue(m2) THEN V2Results ELSE {"failed"}) :
         Assign(V2Update(m2, t2))
  /\ UNCHANGED << decoderVars, rasterVars, providerVars, artVars, paintVars >>

\* The state loop() first runs in: setup() has fetched once, drawn the
\* screen and stamped lastApiPoll.
V2Init ==
  \E t \in V2Results, boot \in BootTimes :
    LET m == V2DrawUI(V2Fetch([trackValid |-> FALSE, trackPlaying |-> FALSE,
                               hasActiveDevice |-> FALSE, trackDuration |-> 0,
                               isStartingPlayback |-> FALSE,
                               startingFrames |-> 0,
                               frameView |-> "splash", pushes |-> << >>], t))
    IN /\ variant = "playerv2"
       /\ trackValid = m.trackValid /\ trackPlaying = m.trackPlaying
       /\ hasActiveDevice = m.hasActiveDevice
       /\ frameView = m.frameView
       /\ pollElapsed = 0
       /\ isTouching = FALSE /\ isDragging = FALSE
       /\ touchStartX = -1 /\ touchStartY = -1
       /\ lastTouchX = -1 /\ lastTouchY = -1
       /\ touchElapsed = Tick(0, boot, PLAYER_TAP_TIME)
       /\ monitorCount = 0 /\ scrollOffset = 0 /\ maxScroll = 0
       /\ selectedMonitor = -1 /\ lastScrollOffset = -1
       /\ detailElapsed = 0 /\ updateElapsed = 0
       /\ redrawElapsed = 0 /\ footerElapsed = 0
       /\ currentMode = "uptime" /\ modeChanged = FALSE
       /\ progressElapsed = Tick(0, boot, PLAYER_PROGRESS_UPDATE + 1)
       /\ event = "none" /\ action = "none" /\ fetches = 0
       /\ upDragging = FALSE /\ timedOut = FALSE
       /\ highlightedButton = -1
       /\ needsRedraw = TRUE
       /\ needsFullRedraw = TRUE
       /\ fingerAt = << -1, -1 >>
       /\ frameList = NoList
       /\ pushes = << >>
       /\ trackDuration = m.trackDuration
       /\ fault = "none"
       /\ startedInDetail = FALSE
       /\ isStartingPlayback = FALSE
       /\ startRaised = FALSE
       /\ startingFrames = 0
       /\ shortSteps = 0
       /\ touchBuf = NoReport /\ touchOut = NoTouch
       /\ drawCall = NoCall /\ fbWrites = {}
       /\ monitors = NoMonitors /\ answer = NotAsked
       /\ albumArtUrl = "" /\ lastAlbumArtUrl = ""
       /\ albumArtLoaded = FALSE
       /\ fb = BlankBuffer /\ paintLog = << >>

----------------------------------------------------------------------------
(* The device runs one of the sketches. *)

Init == UptimeInit \/ DualInit

Next == UptimeLoop \/ DualLoop

Spec == Init /\ [][Next]_vars

\* The device runs one of the two players.
PlayerSpecInit == PlayerInit \/ V2Init

PlayerNext == PlayerLoop \/ V2Loop

PlayerSpec == PlayerSpecInit /\ [][PlayerNext]_vars

\* The device runs any one of the four sketches.
AnyInit == Init \/ PlayerSpecInit

AnyNext == Next \/ PlayerNext

AnySpec == AnyInit /\ [][AnyNext]_vars

----------------------------------------------------------------------------
(* The players' album art: the loops of the two players, followed together  *)
(* with the art buffer                                                       *)

\* The image URLs of the tracks the API reports.
TrackUrls == {"a", "b"}

\* Iterations shorter than the tap time that are followed with the art.
MaxArtShortSteps == 2

ArtStepsFrom(m) == IF m.shortSteps < MaxArtShortSteps
                   THEN ShortSteps \cup LongSteps ELSE LongSteps

ArtCur ==
  [ albumArtUrl |-> albumArtUrl, lastAlbumArtUrl |-> lastAlbumArtUrl,
    albumArtLoaded |-> albumArtLoaded ]

\* A fetch that finds an item stores the URL u of its image.
ArtFetch(a, t, u) ==
  IF PlayerFetched(t) THEN [a EXCEPT !.albumArtUrl = u] ELSE a

\* downloadAlbumArt(url): nothing for an empty URL or the cached one; else
\* the URL is cached and the buffer marked loaded only when the image was
\* received and decoded (d).
downloadAlbumArt(a, url, d) ==
  IF url = "" THEN a
  ELSE IF url = a.lastAlbumArtUrl /\ a.albumArtLoaded THEN a
  ELSE IF d THEN [a EXCEPT !.lastAlbumArtUrl = url, !.albumArtLoaded = TRUE]
  ELSE a

\* spotifyNext() and spotifyPrevious() forget the cached art first.
ClearArt(a) == [a EXCEPT !.lastAlbumArtUrl = "", !.albumArtLoaded = FALSE]

\* drawAlbumArt() inside drawUI(), for the frame the iteration ended with, if
\* it drew one: the buffer when it is marked loaded, else the placeholder.
AlbumAreaShown ==
  IF pushes = << >> THEN "none"
  ELSE IF frameView # "player" THEN "nothing"
  ELSE IF albumArtLoaded THEN "buffer"
  ELSE "placeholder"

\* ---- player v2 (part_001)

\* fetchPlayerState() followed by the download of a track's art.
ArtV2FetchAndLoad(a, m, t, u, d) ==
  LET f == ArtFetch(a, t, u)
  IN IF V2Fetch(m, t).trackValid /\ f.albumArtUrl # ""
     THEN downloadAlbumArt(f, f.albumArtUrl, d)
     ELSE f

ArtV2StartFavorites(a, m, ok, t, u, d) ==
  IF ok THEN ArtV2FetchAndLoad(a, m, t, u, d) ELSE a

ArtV2PlayPause(a, m, ok, t, u, d) ==
  IF ~m.trackValid \/ ~m.hasActiveDevice
  THEN ArtV2StartFavorites(a, m, ok, t, u, d)
  ELSE a

ArtV2Skip(a, m, ok, t, u, d) ==
  IF ok THEN ArtV2FetchAndLoad(ClearArt(a), m, t, u, d) ELSE a

\* The tap on the album art: fetch, then download if the URL is not cached.
ArtV2Refresh(a, m, t, u, d) ==
  LET f == ArtFetch(a, t, u)
  IN IF V2Fetch(m, t).trackValid /\ f.albumArtUrl # f.lastAlbumArtUrl
     THEN downloadAlbumArt(f, f.albumArtUrl, d)
     ELSE f

\* The art after handleTouch(), which found the sketch in m.
ArtV2HandleTouch(a, m, p, ok, t, u, d) ==
  IF ~(p = NoTouch /\ m.isTouching) THEN a
  ELSE IF m.touchElapsed >= V2_TAP_TIME THEN a
  ELSE IF m.highlightedButton = 3 THEN ArtV2StartFavorites(a, m, ok, t, u, d)
  ELSE IF m.highlightedButton = 0 THEN ArtV2Skip(a, m, ok, t, u, d)
  ELSE IF m.highlightedButton = 1 THEN ArtV2PlayPause(a, m, ok, t, u, d)
  ELSE IF m.highlightedButton = 2 THEN ArtV2Skip(a, m, ok, t, u, d)
  ELSE IF m.touchStartY < ALBUM_ART_SIZE /\ m.trackValid
  THEN ArtV2Refresh(a, m, t, u, d)
  ELSE a

\* The poll of loop(): the art is downloaded when the track's URL changed.
ArtV2Poll(a, m, t, u, d) ==
  IF ~V2PollDue(m) THEN a
  ELSE LET f == ArtFetch(a, t, u)
       IN IF V2Fetch(m, t).trackValid /\ f.albumArtUrl # a.albumArtUrl
          THEN downloadAlbumArt(f, f.albumArtUrl, d)
          ELSE f

ArtV2Loop ==
  /\ variant = "playerv2"
  /\ \E s \in PlayerSamples, dt \in ArtStepsFrom(Cur) :
       \E p \in {ReadTouch(s)} :
       \E m1 \in {Observe(Begin(PlayerElapse(CountStep(Cur, dt), dt)), p)} :
       \E up \in {p = NoTouch /\ m1.isTouching /\ m1.touchElapsed < V2_TAP_TIME} :
       \E ok \in (IF up /\ m1.highlightedButton >= 0 THEN BOOLEAN ELSE {FALSE}),
          t1 \in (IF up THEN V2Results ELSE {"failed"}) :
       \E m2 \in {V2HandleTouch(m1, p, ok, t1)},
          a2 \in {ArtV2HandleTouch(ArtCur, m1, p, ok, t1, u, d) :
                    u \in TrackUrls, d \in BOOLEAN} :
       \E t2 \in (IF V2PollDue(m2) THEN V2Results ELSE {"failed"}) :
       \E m3 \in {V2Update(m2, t2)},
          a3 \in {ArtV2Poll(a2, m2, t2, u, d) :
                    u \in TrackUrls, d \in BOOLEAN} :
         /\ Assign(m3)
         /\ albumArtUrl' = a3.albumArtUrl
         /\ lastAlbumArtUrl' = a3.lastAlbumArtUrl
         /\ albumArtLoaded' = a3.albumArtLoaded
  /\ UNCHANGED << decoderVars, rasterVars, providerVars, paintVars >>

\* ---- the first player (examples/spotify_player)

\* spotifyNext() and spotifyPrevious(): the new track is fetched, its art is
\* left to the next poll.
ArtPlayerSkip(a, ok, t, u) ==
  IF ok THEN ArtFetch(ClearArt(a), t, u) ELSE a

\* The tap on the album art: fetch, then download.
ArtPlayerRefresh(a, m, t, u, d) ==
  LET f == ArtFetch(a, t, u)
  IN IF PlayerFetch(m, t).trackValid /\ f.albumArtUrl # ""
     THEN downloadAlbumArt(f, f.albumArtUrl, d)
     ELSE f

\* The art after handleTouch(), which found the sketch in m.
ArtPlayerHandleTouch(a, m, p, ok, t, u, d) ==
  IF ~(p = NoTouch /\ m.isTouching) THEN a
  ELSE IF m.touchElapsed >= PLAYER_TAP_TIME THEN a
  ELSE IF PlayerInControls(m)
  THEN IF PlayerButton(m) \in {0, 2} THEN ArtPlayerSkip(a, ok, t, u) ELSE a
  ELSE IF m.touchStartY < PLAYER_ART_SIZE THEN ArtPlayerRefresh(a, m, t, u, d)
  ELSE a

\* The poll of loop(): after a fetch that returned true the art is downloaded
\* when the track's URL is not the cached one.
ArtPlayerPoll(a, m, t, u, d) ==
  IF ~PlayerPollDue(m) \/ ~PlayerFetched(t) THEN a
  ELSE LET f == ArtFetch(a, t, u)
       IN IF f.albumArtUrl # f.lastAlbumArtUrl
          THEN downloadAlbumArt(f, f.albumArtUrl, d)
          ELSE f

ArtPlayerLoop ==
  /\ variant = "player"
  /\ fault # "trap"
  /\ \E s \in PlayerSamples, dt \in ArtStepsFrom(Cur) :
       \E p \in {ReadTouch(s)} :
       \E m1 \in {Observe(Begin(PlayerElapse(CountStep(Cur, dt), dt)), p)} :
       \E up \in {p = NoTouch /\ m1.isTouching
                                /\ m1.touchElapsed < PLAYER_TAP_TIME} :
       \E ok \in (IF up /\ PlayerInControls(m1) /\ PlayerButton(m1) >= 0
                  THEN BOOLEAN ELSE {FALSE}),
          t1 \in (IF up THEN PlayerResults ELSE {"failed"}) :
       \E m2 \in {PlayerHandleTouch(m1, p, ok, t1)},
          a2 \in {ArtPlayerHandleTouch(ArtCur, m1, p, ok, t1, u, d) :
                    u \in TrackUrls, d \in BOOLEAN} :
       \E t2 \in (IF PlayerPollDue(m2) THEN PlayerResults ELSE {"failed"}) :
       \E a3 \in {ArtPlayerPoll(a2, m2, t2, u, d) :
                    u \in TrackUrls, d \in BOOLEAN} :
       \E m3 \in {PlayerUpdate(m2, t2, trap) : trap \in BOOLEAN} :
         /\ Assign(m3)
         /\ albumArtUrl' = a3.albumArtUrl
         /\ lastAlbumArtUrl' = a3.lastAlbumArtUrl
         /\ albumArtLoaded' = a3.albumArtLoaded
  /\ UNCHANGED << decoderVars, rasterVars, providerVars, paintVars >>

\* The device runs one of the two players; setup() found no image to load.
ArtNext == ArtV2Loop \/ ArtPlayerLoop

ArtSpec == PlayerSpecInit /\ [][ArtNext]_vars

----------------------------------------------------------------------------
(* The parts of the sketches that are checked on their own *)

\* No sketch is running: the sketch variables rest at their initializers.
SketchOff ==
  /\ variant = "none"
  /\ isTouching = FALSE /\ isDragging = FALSE
  /\ touchStartX = -1 /\ touchStartY = -1
  /\ lastTouchX = -1 /\ lastTouchY = -1
  /\ touchElapsed = 0
  /\ monitorCount = 0 /\ scrollOffset = 0 /\ maxScroll = 0
  /\ selectedMonitor = -1 /\ lastScrollOffset = -1
  /\ detailElapsed = 0 /\ updateElapsed = 0
  /\ redrawElapsed = 0 /\ footerElapsed = 0
  /\ currentMode = "uptime" /\ modeChanged = FALSE
  /\ trackValid = FALSE /\ trackPlaying = FALSE
  /\ pollElapsed = 0 /\ progressElapsed = 0
  /\ event = "none" /\ action = "none" /\ fetches = 0
  /\ upDragging = FALSE /\ timedOut = FALSE
  /\ frameView = "none"
  /\ highlightedButton = -1
  /\ needsRedraw = TRUE
  /\ needsFullRedraw = TRUE
  /\ hasActiveDevice = FALSE
  /\ fingerAt = << -1, -1 >>
  /\ frameList = NoList
  /\ pushes = << >>
  /\ trackDuration = 0
  /\ fault = "none"
  /\ startedInDetail = FALSE
  /\ isStartingPlayback = FALSE
  /\ startRaised = FALSE
  /\ startingFrames = 0
  /\ shortSteps = 0

\* The touch decoder, polled over and over.
TouchInit ==
  /\ SketchOff
  /\ touchBuf = NoReport /\ touchOut = NoTouch
  /\ drawCall = NoCall /\ fbWrites = {}
  /\ monitors = NoMonitors /\ answer = NotAsked
  /\ albumArtUrl = "" /\ lastAlbumArtUrl = ""
  /\ albumArtLoaded = FALSE
  /\ fb = BlankBuffer /\ paintLog = << >>

TouchSpec == TouchInit /\ [][PollTouch]_vars

----------------------------------------------------------------------------
(* Drawing helpers: each is the set of indices of fb[] it writes *)

\* font6x8[]: eight bytes for each character from ' ' (32) to 'z' (122), the
\* first six of them the columns of the glyph. Byte k of the array is
\* font6x8[k + 1].
font6x8 ==
  <<
       0,   0,   0,   0,   0,   0,   0,   0,
       0,   0,  95,   0,   0,   0,   0,   0,
       0,   7,   0,   7,   0,   0,   0,   0,
      20, 127,  20, 127,  20,   0,   0,   0,
      36,  42, 127,  42,  18,   0,   0,   0,
      35,  19,   8, 100,  98,   0,   0,   0,
      54,  73,  85,  34,  80,   0,   0,   0,
       0,   5,   3,   0,   0,   0,   0,   0,
       0,  28,  34,  65,   0,   0,   0,   0,
       0,  65,  34,  28,   0,   0,   0,   0,
       8,  42,  28,  42,   8,   0,   0,   0,
       8,   8,  62,   8,   8,   0,   0,   0,
       0,  80,  48,   0,   0,   0,   0,   0,
       8,   8,   8,   8,   8,   0,   0,   0,
       0,  96,  96,   0,   0,   0,   0,   0,
      32,  16,   8,   4,   2,   0,   0,   0,
      62,  81,  73,  69,  62,   0,   0,   0,
       0,  66, 127,  64,   0,   0,   0,   0,
      66,  97,  81,  73,  70,   0,   0,   0,
      33,  65,  69,  75,  49,   0,   0,   0,
      24,  20,  18, 127,  16,   0,   0,   0,
      39,  69,  69,  69,  57,   0,   0,   0,
      60,  74,  73,  73,  48,   0,   0,   0,
       1, 113,   9,   5,   3,   0,   0,   0,
      54,  73,  73,  73,  54,   0,   0,   0,
       6,  73,  73,  41,  30,   0,   0,   0,
       0,  54,  54,   0,   0,   0,   0,   0,
       0,  86,  54,   0,   0,   0,   0,   0,
       0,   8,  20,  34,  65,   0,   0,   0,
      20,  20,  20,  20,  20,   0,   0,   0,
      65,  34,  20,   8,   0,   0,   0,   0,
       2,   1,  81,   9,   6,   0,   0,   0,
      50,  73, 121,  65,  62,   0,   0,   0,
     126,  17,  17,  17, 126,   0,   0,   0,
     127,  73,  73,  73,  54,   0,   0,   0,
      62,  65,  65,  65,  34,   0,   0,   0,
     127,  65,  65,  34,  28,   0,   0,   0,
     127,  73,  73,  73,  65,   0,   0,   0,
     127,   9,   9,   1,   1,   0,   0,   0,
      62,  65,  65,  81,  50,   0,   0,   0,
     127,   8,   8,   8, 127,   0,   0,   0,
       0,  65, 127,  65,   0,   0,   0,   0,
      32,  64,  65,  63,   1,   0,   0,   0,
     127,   8,  20,  34,  65,   0,   0,   0,
     127,  64,  64,  64,  64,   0,   0,   0,
     127,   2,   4,   2, 127,   0,   0,   0,
     127,   4,   8,  16, 127,   0,   0,   0,
      62,  65,  65,  65,  62,   0,   0,   0,
     127,   9,   9,   9,   6,   0,   0,   0,
      62,  65,  81,  33,  94,   0,   0,   0,
     127,   9,  25,  41,  70,   0,   0,   0,
      70,  73,  73,  73,  49,   0,   0,   0,
       1,   1, 127,   1,   1,   0,   0,   0,
      63,  64,  64,  64,  63,   0,   0,   0,
      31,  32,  64,  32,  31,   0,   0,   0,
     127,  32,  24,  32, 127,   0,   0,   0,
      99,  20,   8,  20,  99,   0,   0,   0,
       3,   4, 120,   4,   3,   0,   0,   0,
      97,  81,  73,  69,  67,   0,   0,   0,
       0,   0, 127,  65,  65,   0,   0,   0,
       2,   4,   8,  16,  32,   0,   0,   0,
      65,  65, 127,   0,   0,   0,   0,   0,
       4,   2,   1,   2,   4,   0,   0,   0,
      64,  64,  64,  64,  64,   0,   0,   0,
       0,   1,   2,   4,   0,   0,   0,   0,
      32,  84,  84,  84, 120,   0,   0,   0,
     127,  72,  68,  68,  56,   0,   0,   0,
      56,  68,  68,  68,  32,   0,   0,   0,
      56,  68,  68,  72, 127,   0,   0,   0,
      56,  84,  84,  84,  24,   0,   0,   0,
       8, 126,   9,   1,   2,   0,   0,   0,
       8,  20,  84,  84,  60,   0,   0,   0,
     127,   8,   4,   4, 120,   0,   0,   0,
       0,  68, 125,  64,   0,   0,   0,   0,
      32,  64,  68,  61,   0,   0,   0,   0,
       0, 127,  16,  40,  68,   0,   0,   0,
       0,  65, 127,  64,   0,   0,   0,   0,
     124,   4,  24,   4, 120,   0,   0,   0,
     124,   8,   4,   4, 120,   0,   0,   0,
      56,  68,  68,  68,  56,   0,   0,   0,
     124,  20,  20,  20,   8,   0,   0,   0,
       8,  20,  20,  24, 124,   0,   0,   0,
     124,   8,   4,   4,   8,   0,   0,   0,
      72,  84,  84,  84,  32,   0,   0,   0,
       4,  63,  68,  64,  32,   0,   0,   0,
      60,  64,  64,  32, 124,   0,   0,   0,
      28,  32,  64,  32,  28,   0,   0,   0,
      60,  64,  48,  64,  60,   0,   0,   0,
      68,  40,  16,  40,  68,   0,   0,   0,
      12,  80,  80,  80,  60,   0,   0,   0,
      68, 100,  84,  76,  68,   0,   0,   0
  >>

BitSet(line, j) == (line \div (2 ^ j)) % 2 = 1

fbSetPixel(x, y) ==
  IF x >= 0 /\ x < SCREEN_W /\ y >= 0 /\ y < SCREEN_H
  THEN {y * SCREEN_W + x} ELSE {}

\* A rectangle fill that does not skip the rows above the screen.
fbFillRect_NoTopSkip(x, y, w, h) ==
  {j * SCREEN_W + i :
     i \in {a \in x .. (x + w - 1) : a < SCREEN_W /\ a >= 0},
     j \in {b \in y .. (y + h - 1) : b < SCREEN_H}}

fbFillRect(x, y, w, h) ==
  {j * SCREEN_W + i :
     i \in {a \in x .. (x + w - 1) : a < SCREEN_W /\ a >= 0},
     j \in {b \in y .. (y + h - 1) : b < SCREEN_H /\ b >= 0}}

fbFillRoundRect(x, y, w, h, r) ==
  fbFillRect(x + r, y, w - 2 * r, h)
  \cup fbFillRect(x, y + r, r, h - 2 * r)
  \cup fbFillRect(x + w - r, y + r, r, h - 2 * r)
  \cup UNION { fbSetPixel(x + r - q[1] - 1, y + r - q[2] - 1)
               \cup fbSetPixel(x + w - r + q[1], y + r - q[2] - 1)
               \cup fbSetPixel(x + r - q[1] - 1, y + h - r + q[2])
               \cup fbSetPixel(x + w - r + q[1], y + h - r + q[2]) :
               q \in {c \in (0 .. (r - 1)) \X (0 .. (r - 1)) :
                        c[1] * c[1] + c[2] * c[2] <= r * r} }

fbFillCircle(cx, cy, r) ==
  UNION { fbSetPixel(cx + q[1], cy + q[2]) :
          q \in {c \in ((-r) .. r) \X ((-r) .. r) :
                   c[1] * c[1] + c[2] * c[2] <= r * r} }

fbDrawHLine(x, y, w) == UNION { fbSetPixel(i, y) : i \in x .. (x + w - 1) }

fbDrawVLine(x, y, h) == UNION { fbSetPixel(x, i) : i \in y .. (y + h - 1) }

\* fbDrawChar(): nothing for a character outside the font; else every set
\* bit of the glyph as a block of sz by sz pixels.
fbDrawChar(x, y, ch, sz) ==
  IF ch < 32 \/ ch > 122 THEN {}
  ELSE LET idx == (ch - 32) * 8
       IN UNION { fbSetPixel(x + q[1] * sz + q[3], y + q[2] * sz + q[4]) :
                  q \in {c \in (0 .. 5) \X (0 .. 7) \X (0 .. (sz - 1)) \X (0 .. (sz - 1)) :
                           BitSet(font6x8[idx + c[1] + 1], c[2])} }

\* A version of fbDrawCharReads() without the upper limit on the character.
fbDrawCharReads_NoUpperLimit(ch) ==
  IF ch < 32 THEN {}
  ELSE {(ch - 32) * 8 + i : i \in 0 .. 5}

\* The bytes of font6x8[] that fbDrawChar() reads for a character.
fbDrawCharReads(ch) ==
  IF ch < 32 \/ ch > 122 THEN {}
  ELSE {(ch - 32) * 8 + i : i \in 0 .. 5}

\* The distance from one character of a text to the next.
CharPitch(sz) == 6 * sz + (IF sz > 1 THEN 1 ELSE 0)

RECURSIVE fbDrawText(_, _, _, _)
fbDrawText(x, y, s, sz) ==
  IF s = << >> THEN {}
  ELSE fbDrawChar(x, y, Head(s), sz)
       \cup fbDrawText(x + CharPitch(sz), y, Tail(s), sz)

textWidth(s, sz) == Len(s) * CharPitch(sz)

fbDrawTextCentered(y, s, sz) ==
  fbDrawText(CDiv(SCREEN_W - textWidth(s, sz), 2), y, s, sz)

\* drawAlbumArt() of player v2: the loaded cover is copied, else a
\* placeholder is drawn over the same square.
drawAlbumArt(loaded) ==
  LET square == {y * SCREEN_W + x : x \in 0 .. (SCREEN_W - 1),
                                    y \in 0 .. (ALBUM_ART_SIZE - 1)}
  IN IF ~loaded
     THEN square \cup fbFillCircle(90, 90, 30)
                 \cup fbDrawTextCentered(82, << 63 >>, 4)
     ELSE square

\* drawProgressBar() of the first player: the fill of the bar at (10, 370),
\* 6 high, with corners of radius 3.
ProgressFills ==
  {Call("fbFillRoundRect", 10, 370, w, 6, 3, << >>, 0) : w \in FillWidths}

\* The calls that are made: every helper with every combination of
\* arguments, and the progress fills.
Calls ==
  ProgressFills \cup
  {Call("fbSetPixel", x, y, 0, 0, 0, << >>, 0) : x \in DrawXs, y \in DrawYs}
  \cup {Call("fbFillRect", x, y, q[1], q[2], 0, << >>, 0) :
          x \in DrawXs, y \in DrawYs, q \in DrawWidths \X DrawHeights}
  \cup {Call("fbFillRoundRect", x, y, q[1], q[2], q[3], << >>, 0) :
          x \in RoundXs, y \in RoundYs, q \in DrawWidths \X DrawHeights \X DrawRadii}
  \cup {Call("fbFillCircle", x, y, 0, 0, r, << >>, 0) :
          x \in DrawXs, y \in DrawYs, r \in DrawRadii}
  \cup {Call("fbDrawHLine", x, y, w, 0, 0, << >>, 0) :
          x \in DrawXs, y \in DrawYs, w \in DrawWidths}
  \cup {Call("fbDrawVLine", x, y, 0, h, 0, << >>, 0) :
          x \in DrawXs, y \in DrawYs, h \in DrawHeights}
  \cup {Call("fbDrawChar", x, y, 0, 0, 0, << q[1] >>, q[2]) :
          x \in DrawXs, y \in DrawYs, q \in DrawChars \X DrawScales}
  \cup {Call("fbDrawText", x, y, 0, 0, 0, q[1], q[2]) :
          x \in DrawXs, y \in DrawYs, q \in DrawTexts \X DrawScales}
  \cup {Call("drawAlbumArt", 0, 0, 0, 0, 0, << >>, sz) : sz \in {0, 1}}

\* The bytes of font6x8[] the call read: those of its characters.
fontReads ==
  IF drawCall.done /\ drawCall.op \in {"fbDrawChar", "fbDrawText"}
  THEN UNION {fbDrawCharReads(drawCall.ch[k]) : k \in 1 .. Len(drawCall.ch)}
  ELSE {}

\* The call in drawCall is one of op and has not returned yet.
Calling(op) == drawCall.op = op /\ ~drawCall.done

\* The call returns having written the indices in ws.
Return(ws) ==
  /\ drawCall' = [drawCall EXCEPT !.done = TRUE]
  /\ fbWrites' = ws
  /\ UNCHANGED << sketchVars, decoderVars, providerVars, artVars, paintVars >>

CallSetPixel ==
  Calling("fbSetPixel") /\ Return(fbSetPixel(drawCall.x, drawCall.y))

CallFillRect ==
  /\ Calling("fbFillRect")
  /\ Return(fbFillRect(drawCall.x, drawCall.y, drawCall.w, drawCall.h))

CallFillRoundRect ==
  /\ Calling("fbFillRoundRect")
  /\ Return(fbFillRoundRect(drawCall.x, drawCall.y, drawCall.w, drawCall.h,
                            drawCall.r))

CallFillCircle ==
  /\ Calling("fbFillCircle")
  /\ Return(fbFillCircle(drawCall.x, drawCall.y, drawCall.r))

CallDrawHLine ==
  /\ Calling("fbDrawHLine")
  /\ Return(fbDrawHLine(drawCall.x, drawCall.y, drawCall.w))

CallDrawVLine ==
  /\ Calling("fbDrawVLine")
  /\ Return(fbDrawVLine(drawCall.x, drawCall.y, drawCall.h))

CallDrawChar ==
  /\ Calling("fbDrawChar")
  /\ Return(fbDrawChar(drawCall.x, drawCall.y, drawCall.ch[1], drawCall.sz))

CallDrawText ==
  /\ Calling("fbDrawText")
  /\ Return(fbDrawText(drawCall.x, drawCall.y, drawCall.ch, drawCall.sz))

\* sz of the call says whether the cover is loaded.
CallDrawAlbumArt ==
  /\ Calling("drawAlbumArt")
  /\ Return(drawAlbumArt(drawCall.sz = 1))

\* A drawing helper is called with any of the arguments and returns.
RasterInit ==
  /\ SketchOff
  /\ touchBuf = NoReport /\ touchOut = NoTouch
  /\ drawCall \in Calls /\ fbWrites = {}
  /\ monitors = NoMonitors /\ answer = NotAsked
  /\ albumArtUrl = "" /\ lastAlbumArtUrl = ""
  /\ albumArtLoaded = FALSE
  /\ fb = BlankBuffer /\ paintLog = << >>

RasterNext ==
  \/ CallSetPixel
  \/ CallFillRect
  \/ CallFillRoundRect
  \/ CallFillCircle
  \/ CallDrawHLine
  \/ CallDrawVLine
  \/ CallDrawChar
  \/ CallDrawText
  \/ CallDrawAlbumArt

RasterSpec == RasterInit /\ [][RasterNext]_vars

----------------------------------------------------------------------------
(* Drawing helpers: the colours they leave in fb[] *)

\* The colour of pixel i of fb[].
FbAt(i) == IF i \in DOMAIN fb.over THEN fb.over[i] ELSE fb.base

\* A store that leaves a pixel written earlier as it is.
Paint_KeepWritten(buf, ws, c) ==
  [buf EXCEPT !.over = [i \in DOMAIN buf.over \cup ws |->
                          IF i \in DOMAIN buf.over THEN buf.over[i] ELSE c]]

\* fb[i] = c for every index i in ws.
Paint(buf, ws, c) ==
  [buf EXCEPT !.over = [i \in DOMAIN buf.over \cup ws |->
                          IF i \in ws THEN c ELSE buf.over[i]]]

\* fbClear(): every pixel of fb[] is set to c.
fbClear(c) == [base |-> c, over |-> [i \in {} |-> 0]]

\* The calls that are made on one buffer: each helper partly off the screen,
\* on it, and overlapping the others; the round rectangles are a button-like
\* one and one narrower than its corners.
PaintCalls ==
  {Call("fbClear", 0, 0, 0, 0, 0, << >>, 0)}
  \cup {Call("fbSetPixel", q[1], q[2], 0, 0, 0, << >>, 0) : q \in PaintAt}
  \cup {Call("fbFillRect", q[1], q[2], 2, 3, 0, << >>, 0) : q \in PaintAt}
  \cup {Call("fbFillRoundRect", q[1], q[2], 5, 5, 2, << >>, 0) : q \in PaintAt}
  \cup {Call("fbFillRoundRect", 2, 2, 1, 5, 2, << >>, 0)}
  \cup {Call("fbFillCircle", q[1], q[2], 0, 0, 2, << >>, 0) : q \in PaintAt}
  \cup {Call("fbDrawHLine", q[1], q[2], 4, 0, 0, << >>, 0) : q \in PaintAt}
  \cup {Call("fbDrawVLine", q[1], q[2], 0, 4, 0, << >>, 0) : q \in PaintAt}

\* The helper op is called with colour c on the buffer, if fewer than
\* MaxPaints calls were made, and writes c at the indices ws(call).
Painted(call, c, buf) ==
  /\ Len(paintLog) < MaxPaints
  /\ fb' = buf
  /\ paintLog' = Append(paintLog, [call |-> call, c |-> c])
  /\ UNCHANGED << sketchVars, decoderVars, rasterVars, providerVars, artVars >>

PaintClear ==
  \E call \in PaintCalls, c \in Colours :
    call.op = "fbClear" /\ Painted(call, c, fbClear(c))

PaintSetPixel ==
  \E call \in PaintCalls, c \in Colours :
    /\ call.op = "fbSetPixel"
    /\ Painted(call, c, Paint(fb, fbSetPixel(call.x, call.y), c))

PaintFillRect ==
  \E call \in PaintCalls, c \in Colours :
    /\ call.op = "fbFillRect"
    /\ Painted(call, c, Paint(fb, fbFillRect(call.x, call.y, call.w, call.h), c))

PaintFillRoundRect ==
  \E call \in PaintCalls, c \in Colours :
    /\ call.op = "fbFillRoundRect"
    /\ Painted(call, c,
               Paint(fb, fbFillRoundRect(call.x, call.y, call.w, call.h, call.r), c))

PaintFillCircle ==
  \E call \in PaintCalls, c \in Colours :
    /\ call.op = "fbFillCircle"
    /\ Painted(call, c, Paint(fb, fbFillCircle(call.x, call.y, call.r), c))

PaintDrawHLine ==
  \E call \in PaintCalls, c \in Colours :
    /\ call.op = "fbDrawHLine"
    /\ Painted(call, c, Paint(fb, fbDrawHLine(call.x, call.y, call.w), c))

PaintDrawVLine ==
  \E call \in PaintCalls, c \in Colours :
    /\ call.op = "fbDrawVLine"
    /\ Painted(call, c, Paint(fb, fbDrawVLine(call.x, call.y, call.h), c))

\* Helpers are called one after another on the same buffer.
PaintInit ==
  /\ SketchOff
  /\ touchBuf = NoReport /\ touchOut = NoTouch
  /\ drawCall = NoCall /\ fbWrites = {}
  /\ monitors = NoMonitors /\ answer = NotAsked
  /\ albumArtUrl = "" /\ lastAlbumArtUrl = ""
  /\ albumArtLoaded = FALSE
  /\ fb = BlankBuffer /\ paintLog = << >>

PaintNext ==
  \/ PaintClear
  \/ PaintSetPixel
  \/ PaintFillRect
  \/ PaintFillRoundRect
  \/ PaintFillCircle
  \/ PaintDrawHLine
  \/ PaintDrawVLine

PaintSpec == PaintInit /\ [][PaintNext]_vars

----------------------------------------------------------------------------
(* The monitor list on its own: fetchMonitors() called over and over *)

CallFetchMonitors ==
  /\ \E a \in Answers :
       /\ answer' = a
       /\ monitors' = FetchRecords(monitors, a)
       /\ Assign(FetchMonitors(Begin(Cur), AnswerResult(a)))
  /\ UNCHANGED << decoderVars, rasterVars, artVars, paintVars >>

FetchInit ==
  /\ SketchOff
  /\ touchBuf = NoReport /\ touchOut = NoTouch
  /\ drawCall = NoCall /\ fbWrites = {}
  /\ monitors = NoMonitors /\ answer = NotAsked
  /\ albumArtUrl = "" /\ lastAlbumArtUrl = ""
  /\ albumArtLoaded = FALSE
  /\ fb = BlankBuffer /\ paintLog = << >>

FetchSpec == FetchInit /\ [][CallFetchMonitors]_vars

----------------------------------------------------------------------------
(* Claims *)

Clamp(v, lo, hi) == IF v < lo THEN lo ELSE IF v > hi THEN hi ELSE v

\* C1: between two loop() iterations of the uptime monitor the scroll offset
\* is within [0, maxScroll], maxScroll = max(0, 95 * itemCount - 570).
C1_ScrollInRange ==
  variant = "uptime" =>
    /\ 0 <= scrollOffset
    /\ scrollOffset <= Max(0, ROW_PITCH * monitorCount - LIST_VIEWPORT)

\* C2: in list view a poll of a dragging touch whose finger delta is
\* d = (current y - previous y) leaves the scroll offset at
\* clamp(scrollOffset - d, 0, maxScroll); stated for the iterations in which
\* the drag is the only mutation (no fetch changes the item count).
C2_DragStep ==
  [][ ( /\ variant = "uptime"
        /\ selectedMonitor < 0
        /\ event' = "move" /\ isDragging'
        /\ fetches' = 0 )
      => scrollOffset' =
           Clamp(scrollOffset - (lastTouchY' - lastTouchY), 0,
                 Max(0, ROW_PITCH * monitorCount - LIST_VIEWPORT)) ]_vars

----------------------------------------------------------------------------
(* C3: taps *)

\* What a touch-up does with a touch it took for a tap.
TapActions == {"select", "refresh", "miss", "reset", "playpause"}

\* The touch that just ended was short and ended near where it began.
ShortAndNear ==
  /\ event = "up"
  /\ touchElapsed < TAP_TIME
  /\ Abs(lastTouchX - touchStartX) < MOVE_THRESHOLD
  /\ Abs(lastTouchY - touchStartY) < MOVE_THRESHOLD

\* C3 as stated: every touch shorter than 500 ms that ends less than 15 px
\* from its start on both axes is handled as a tap, in both sketches and
\* whatever path the finger took in between.
C3_TapWhateverPath == ShortAndNear => action \in TapActions

\* C3: every touch shorter than 500 ms that ends less than 15 px from its
\* start on both axes is handled as a tap; in the dual-mode sketch only if
\* the touch never became a drag.
C3_TapUnlessDualDrag ==
  (ShortAndNear /\ (variant = "dual" => ~upDragging)) => action \in TapActions

\* A touch of the uptime monitor that went away, came back and selected.
C3_Witness ==
  /\ variant = "uptime" /\ ShortAndNear /\ upDragging
  /\ action = "select"

----------------------------------------------------------------------------
(* C4, C5: detail view *)

C5_DetailTap ==
  [][ (variant = "uptime" /\ selectedMonitor >= 0)
      => /\ event' = "up" =>
              selectedMonitor' = selectedMonitor /\ detailElapsed' = 0
         /\ selectedMonitor' # selectedMonitor =>
              /\ selectedMonitor' = -1
              /\ event' # "up"
              /\ detailElapsed' > DETAIL_TIMEOUT ]_vars

\* A touch ended in detail view and restarted the timer.
C5_Witness ==
  /\ event = "up" /\ action = "reset"
  /\ selectedMonitor >= 0 /\ detailElapsed = 0

----------------------------------------------------------------------------
(* C6, C7: selection *)

\* The iteration ends a list-view touch of the uptime monitor with a tap
\* that began in the list area.
ListAreaTap ==
  /\ variant = "uptime" /\ selectedMonitor < 0
  /\ isTouching /\ event' = "up"
  /\ touchElapsed' < TAP_TIME
  /\ Abs(lastTouchX - touchStartX) < TAP_MOVE
  /\ Abs(lastTouchY - touchStartY) < TAP_MOVE
  /\ touchStartY > HEADER_BOTTOM /\ touchStartY < LIST_BOTTOM

\* y is on the card drawn for row i when the list is scrolled by s.
OnDrawnRow(i, y, s) ==
  /\ LIST_TOP + ROW_PITCH * i - s <= y
  /\ y < LIST_TOP + ROW_PITCH * i - s + CARD_HEIGHT

\* y is on the card drawn for row i or in the 10 px below it; for the first
\* row also in the 94 px above it.
OnRowPitch(i, y, s) ==
  /\ LIST_TOP + ROW_PITCH * i - s - (IF i = 0 THEN ROW_PITCH - 1 ELSE 0) <= y
  /\ y < LIST_TOP + ROW_PITCH * i - s + ROW_PITCH

\* C6 as stated: a list tap selects row i exactly when it began on the card
\* drawn for row i; a tap above the first card or between two cards selects
\* nothing.
C6_TapOnCard ==
  [][ ListAreaTap =>
        \A i \in 0 .. (MAX_MONITORS - 1) :
          selectedMonitor' = i <=>
            (i < monitorCount /\ OnDrawnRow(i, touchStartY, scrollOffset)) ]_vars

\* C6: a list tap that began below the header (55 < y < 620) selects row i,
\* and starts the detail timer, exactly when row i exists and the tap began
\* on its card or in the 10 px gap below it, or, for the first row, up to
\* 94 px above it; any other tap leaves the list view.
C6_TapOnPitch ==
  [][ ListAreaTap =>
        /\ \A i \in 0 .. (MAX_MONITORS - 1) :
             selectedMonitor' = i <=>
               (i < monitorCount /\ OnRowPitch(i, touchStartY, scrollOffset))
        /\ selectedMonitor' >= 0 => detailElapsed' = 0 /\ frameView' = "detail"
        /\ selectedMonitor' < 0 => selectedMonitor' = -1 ]_vars

\* A tap that began off every drawn card selected the row above the gap.
C6_Witness ==
  /\ variant = "uptime" /\ action = "select" /\ scrollOffset > 0
  /\ ~OnDrawnRow(selectedMonitor, touchStartY, scrollOffset)

\* C7: the selected monitor is -1 or an index of a fetched monitor.
C7_SelectionValid ==
  selectedMonitor = -1 \/ (0 <= selectedMonitor /\ selectedMonitor < monitorCount)

\* A row other than the first is selected in a scrolled list.
C7_Witness ==
  /\ selectedMonitor >= 1 /\ selectedMonitor < monitorCount
  /\ scrollOffset > 0 /\ frameView = "detail"

----------------------------------------------------------------------------
(* C9: header tap *)

\* The iteration ends a touch with a tap on the header of the monitor list.
HeaderTapEnds ==
  /\ isTouching /\ event' = "up"
  /\ touchElapsed' < TAP_TIME
  /\ IF variant = "uptime"
     THEN /\ selectedMonitor < 0
          /\ Abs(lastTouchX - touchStartX) < TAP_MOVE
          /\ Abs(lastTouchY - touchStartY) < TAP_MOVE
          /\ touchStartY < HEADER_BOTTOM
     ELSE /\ currentMode = "uptime"
          /\ ~isDragging
          /\ touchStartY < DUAL_HEADER_BOTTOM

\* C9: a tap on the header of the monitor list asks the provider for the
\* monitors exactly once and changes neither the selection nor the mode.
C9_HeaderRefresh ==
  [][ HeaderTapEnds =>
        /\ fetches' = 1 /\ action' = "refresh"
        /\ selectedMonitor' = -1
        /\ currentMode' = currentMode ]_vars

\* A header tap fetched once and the list view is still up.
C9_Witness ==
  /\ event = "up" /\ action = "refresh" /\ fetches = 1
  /\ selectedMonitor = -1 /\ updateElapsed = 0

----------------------------------------------------------------------------
(* C10: mode switch *)

\* The iteration ends a touch that began in the top band, ended more than
\* 80 px lower and lasted less than 1000 ms.
SwipeEnds ==
  /\ isTouching /\ event' = "up"
  /\ touchStartY < SWIPE_ZONE_HEIGHT
  /\ lastTouchY - touchStartY > SWIPE_THRESHOLD
  /\ touchElapsed' < SWIPE_TIME

----------------------------------------------------------------------------
(* C11: what a mode switch keeps *)

\* C11: an iteration of the dual-mode sketch that switches the mode makes the
\* other mode the active one and leaves the scroll offset, the selection, the
\* monitor list and the track data as they were; only a provider fetch that
\* is due in the same iteration (a monitor fetch, or the player poll, which
\* restarts its timer) changes the data of the mode that was entered.
C11_SwitchKeepsSubState ==
  [][ (variant = "dual" /\ action' = "toggle")
      => /\ currentMode' = OtherMode(currentMode)
         /\ scrollOffset' = scrollOffset
         /\ selectedMonitor' = selectedMonitor
         /\ fetches' = 0 => monitorCount' = monitorCount
         /\ pollElapsed' # 0 =>
              trackValid' = trackValid /\ trackPlaying' = trackPlaying ]_vars

\* A second swipe came back to the monitors, the list and the track as
\* they were left.
C11_Witness ==
  /\ variant = "dual" /\ action = "toggle" /\ currentMode = "uptime"
  /\ monitorCount = 7 /\ fetches = 0
  /\ trackValid /\ pollElapsed # 0

----------------------------------------------------------------------------
(* C12: one classification per touch, at the touch-up *)

\* What the touch-up makes of the touch that ends in this iteration, from the
\* start point, the last point reported while the finger was down, the
\* duration and, in the dual-mode sketch, the dragging flag.
EndsAsSwipe ==
  /\ variant = "dual"
  /\ touchStartY < SWIPE_ZONE_HEIGHT
  /\ lastTouchY - touchStartY > SWIPE_THRESHOLD
  /\ touchElapsed' < SWIPE_TIME

EndsAsTap ==
  /\ ~EndsAsSwipe
  /\ touchElapsed' < TAP_TIME
  /\ IF variant = "uptime"
     THEN selectedMonitor >= 0
          \/ /\ Abs(lastTouchX - touchStartX) < TAP_MOVE
             /\ Abs(lastTouchY - touchStartY) < TAP_MOVE
     ELSE ~isDragging

\* C12: a touch is classified once, in the iteration whose poll finds the
\* finger gone, from the last point reported while the finger was down: a
\* swipe switches the mode, a tap performs a tap action, anything else ends
\* without action; an iteration whose poll finds the finger down performs no
\* tap or swipe action and changes neither the mode nor the selection (but
\* for the detail timeout).
C12_ClassifiedAtTouchUp ==
  [][ /\ event' = "up" <=> (isTouching /\ ~isTouching')
      /\ event' = "up" =>
           /\ lastTouchX' = lastTouchX /\ lastTouchY' = lastTouchY
           /\ touchStartX' = touchStartX /\ touchStartY' = touchStartY
           /\ action' = "toggle" <=> EndsAsSwipe
           /\ action' \in {"select", "refresh", "miss", "playpause"} =>
                EndsAsTap
           /\ (EndsAsTap /\ touchElapsed' < TAP_TIME
               /\ (variant = "uptime" => selectedMonitor < 0)) =>
                action' \in {"select", "refresh", "miss", "playpause"}
      /\ event' # "up" =>
           /\ action' = "none"
           /\ currentMode' = currentMode
           /\ selectedMonitor' = selectedMonitor \/ timedOut' ]_vars

\* A drag of the list ended without tap action.
C12_Witness ==
  /\ variant = "uptime" /\ event = "up" /\ action = "none"
  /\ upDragging /\ scrollOffset > 0

----------------------------------------------------------------------------
(* C14, C15: the touch decoder *)

\* The raw coordinates in the report that was polled.
PolledRawX == (touchBuf.b2 % 16) * 256 + touchBuf.b3
PolledRawY == (touchBuf.b4 % 16) * 256 + touchBuf.b5

\* C14 as stated: a report with more than one touch point, or with a non-zero
\* gesture code, decodes to no touch.
C14_MultiTouchIsNoTouch ==
  (touchBuf.avail /\ (touchBuf.b1 > 1 \/ touchBuf.b0 # 0)) => touchOut = NoTouch

\* C14: a report with no touch point, or with a non-zero gesture code, decodes
\* to no touch; a report with one or more points and gesture code 0 decodes to
\* a touch at its first point.
C14_GestureIsNoTouch ==
  touchBuf.avail =>
    /\ (touchBuf.b1 = 0 \/ touchBuf.b0 # 0) => touchOut = NoTouch
    /\ (touchBuf.b1 >= 1 /\ touchBuf.b0 = 0) =>
         /\ touchOut # NoTouch
         /\ touchOut[1] = Clamp(PolledRawY, 0, 179)

\* A report of one point under a gesture code was dropped.
C14_Witness ==
  /\ touchBuf.avail /\ touchBuf.b0 # 0 /\ touchBuf.b1 = 1
  /\ touchOut = NoTouch

\* C15: a reported touch is at (clamp(rawY, 0, 179), clamp(640 - rawX, 0, 639))
\* of the 12-bit raw coordinates, which is inside the 180 x 640 panel; a poll
\* the controller does not answer in time reports no touch and no
\* coordinates.
C15_DecodedPoint ==
  /\ touchOut # NoTouch =>
       /\ touchOut = << Clamp(PolledRawY, 0, 179), Clamp(640 - PolledRawX, 0, 639) >>
       /\ 0 <= touchOut[1] /\ touchOut[1] < 180
       /\ 0 <= touchOut[2] /\ touchOut[2] < 640
  /\ ~touchBuf.avail => touchOut = NoTouch

\* A point beyond the panel on both axes was reported at the panel's corner;
\* the flag bits above the coordinate's top nibble were ignored.
C15_Witness ==
  /\ touchOut = << 179, 0 >>
  /\ PolledRawX > 640 /\ PolledRawY > 179
  /\ touchBuf.b2 > 15

----------------------------------------------------------------------------
\* C13: a touch cycle triggers a tap action (item selection, refresh,
\* playback control) only if it lasted less than the tap time and its
\* displacement is below the tap distance on both axes: whichever sketch
\* runs, a cycle whose finger went farther triggers none.
TapEffects == {"select", "refresh", "playpause", "previous", "next", "favorites"}

C13_TapIsShortAndNear ==
  (event = "up" /\ action \in TapEffects)
    => /\ touchElapsed < TAP_TIME
       /\ Abs(fingerAt[1] - touchStartX) < TAP_MOVE
       /\ Abs(fingerAt[2] - touchStartY) < TAP_MOVE

----------------------------------------------------------------------------
\* C16: no drawing helper writes outside the 180x640 buffer, whatever its
\* arguments (negative, zero, oversized): the pixels of the shape that are
\* off the screen are skipped and those on the screen are all written.
OnScreen == 0 .. (SCREEN_W * SCREEN_H - 1)

\* The part of the columns x0 .. x1 and rows y0 .. y1 that is on the screen.
ScreenPart(x0, x1, y0, y1) ==
  (Max(x0, 0) .. Min(x1, SCREEN_W - 1)) \X (Max(y0, 0) .. Min(y1, SCREEN_H - 1))

IndexOf(q) == q[2] * SCREEN_W + q[1]

RectPart(x, y, w, h) ==
  {IndexOf(q) : q \in ScreenPart(x, x + w - 1, y, y + h - 1)}

\* The quarter disc of radius r whose corner pixel is (cx, cy) and which
\* grows by (sx, sy).
QuarterPart(cx, cy, sx, sy, r) ==
  {IndexOf(q) :
     q \in {c \in ScreenPart(cx - (r - 1), cx + (r - 1), cy - (r - 1), cy + (r - 1)) :
              /\ (c[1] - cx) * sx >= 0 /\ (c[2] - cy) * sy >= 0
              /\ (c[1] - cx) * (c[1] - cx) + (c[2] - cy) * (c[2] - cy) <= r * r}}

RoundRectPart(x, y, w, h, r) ==
  RectPart(x + r, y, w - 2 * r, h)
  \cup RectPart(x, y + r, r, h - 2 * r)
  \cup RectPart(x + w - r, y + r, r, h - 2 * r)
  \cup QuarterPart(x + r - 1, y + r - 1, -1, -1, r)
  \cup QuarterPart(x + w - r, y + r - 1, 1, -1, r)
  \cup QuarterPart(x + r - 1, y + h - r, -1, 1, r)
  \cup QuarterPart(x + w - r, y + h - r, 1, 1, r)

DiscPart(cx, cy, r) ==
  {IndexOf(q) :
     q \in {c \in ScreenPart(cx - r, cx + r, cy - r, cy + r) :
              (c[1] - cx) * (c[1] - cx) + (c[2] - cy) * (c[2] - cy) <= r * r}}

GlyphPart(x, y, ch, sz) ==
  IF ch < 32 \/ ch > 122 \/ sz <= 0 THEN {}
  ELSE {IndexOf(q) :
          q \in {c \in ScreenPart(x, x + 6 * sz - 1, y, y + 8 * sz - 1) :
                   BitSet(font6x8[(ch - 32) * 8 + ((c[1] - x) \div sz) + 1], (c[2] - y) \div sz)}}

TextPart(x, y, s, sz) ==
  UNION {GlyphPart(x + (k - 1) * CharPitch(sz), y, s[k], sz) : k \in 1 .. Len(s)}

\* The pixels of the call's shape that are on the screen.
Intended(c) ==
  CASE c.op = "none" -> {}
    [] c.op = "fbSetPixel" -> RectPart(c.x, c.y, 1, 1)
    [] c.op = "fbFillRect" -> RectPart(c.x, c.y, c.w, c.h)
    [] c.op = "fbFillRoundRect" -> RoundRectPart(c.x, c.y, c.w, c.h, c.r)
    [] c.op = "fbFillCircle" -> DiscPart(c.x, c.y, c.r)
    [] c.op = "fbDrawHLine" -> RectPart(c.x, c.y, c.w, 1)
    [] c.op = "fbDrawVLine" -> RectPart(c.x, c.y, 1, c.h)
    [] c.op = "fbDrawChar" -> GlyphPart(c.x, c.y, c.ch[1], c.sz)
    [] c.op = "fbDrawText" -> TextPart(c.x, c.y, c.ch, c.sz)
    [] c.op = "drawAlbumArt" -> RectPart(0, 0, SCREEN_W, ALBUM_ART_SIZE)

C16_WritesStayInside ==
  /\ fbWrites \subseteq OnScreen
  /\ drawCall.done => fbWrites = Intended(drawCall)

\* A rectangle that hangs over the left and the top edge has been drawn.
C16_Witness ==
  /\ drawCall.op = "fbFillRect" /\ drawCall.done
  /\ drawCall.x < 0 /\ drawCall.y < 0 /\ drawCall.w = 4 /\ drawCall.h = 4
  /\ fbWrites = {0}

----------------------------------------------------------------------------
\* C18: with no monitors the list view shows the empty-state message, no
\* rows and no scrollbar, maxScroll is 0 and so is the scroll offset; a tap
\* on the header still asks the provider for the monitors.
EmptyListUp ==
  /\ monitorCount = 0
  /\ \/ variant = "uptime" /\ selectedMonitor < 0 /\ frameView = "list"
     \/ variant = "dual" /\ frameView = "uptime"

EmptyListAtRest ==
  EmptyListUp
    => /\ frameList = [message |-> TRUE, rows |-> 0, bar |-> FALSE,
                       offset |-> 0]
       /\ maxScroll = 0
       /\ scrollOffset = 0

C18_EmptyList ==
  /\ []EmptyListAtRest
  /\ [][ (monitorCount = 0 /\ HeaderTapEnds) => fetches' = 1 ]_vars

\* C19 (as stated): render-and-flush runs at most once per main-loop
\* iteration, only when a dirty condition holds, and every flush sends the
\* whole 180x640 buffer.
FullScreen == << 0, 0, SCREEN_W, SCREEN_H >>

WholeBufferOnly == \A i \in 1 .. Len(pushes) : pushes[i] = FullScreen

\* An iteration nothing asks a frame of: no touch event, no fetch, no timer
\* that ran out, no scroll position or redraw request left over.
QuietStep ==
  /\ event' = "none" /\ fetches' = 0 /\ ~timedOut'
  /\ CASE variant = "uptime" ->
             /\ scrollOffset = lastScrollOffset
             /\ updateElapsed' # 0 /\ redrawElapsed' # 0 /\ footerElapsed' # 0
        [] variant = "dual" ->
             /\ ~modeChanged
             /\ updateElapsed' # 0 /\ pollElapsed' # 0 /\ progressElapsed' # 0
        [] variant = "player" ->
             /\ ~needsRedraw
             /\ pollElapsed' # 0 /\ progressElapsed' # 0
        [] OTHER ->
             /\ ~needsRedraw /\ ~needsFullRedraw
             /\ pollElapsed' # 0 /\ progressElapsed' # 0

C20_NoDivisionByZero == fault = "none"

----------------------------------------------------------------------------
(* C21: card taps of the dual-mode display *)

\* The iteration ends a tap that began on a drawn row of the monitor list of
\* the dual-mode display.
DualCardTapEnds ==
  /\ variant = "dual" /\ currentMode = "uptime"
  /\ isTouching /\ event' = "up" /\ action' # "toggle"
  /\ touchElapsed' < TAP_TIME /\ ~isDragging
  /\ touchStartY >= DUAL_ROW_TOP
  /\ CDiv(touchStartY - DUAL_ROW_TOP, DUAL_ROW_PITCH)
       < Min(monitorCount, DUAL_MAX_ROWS)

\* C21 (as stated): in the uptime mode of the dual-mode display a tap on a
\* monitor card opens the detail view of that monitor.
C21_CardTapOpensDetail ==
  [][ DualCardTapEnds =>
        /\ selectedMonitor' = CDiv(touchStartY - DUAL_ROW_TOP, DUAL_ROW_PITCH)
        /\ frameView' = "detail" ]_vars

----------------------------------------------------------------------------
(* C22: the timers of the two modes *)

\* C22 (as stated): in the dual-mode display the monitor refresh and the
\* player poll each fire on their own interval whether or not their mode is
\* the active one, so that at the end of an iteration neither provider's data
\* is older than its interval.
C22_TimersRunHidden ==
  [][ variant = "dual" =>
        /\ updateElapsed' <= UPTIME_UPDATE_INTERVAL
        /\ pollElapsed' <= SPOTIFY_API_POLL_INTERVAL ]_vars

----------------------------------------------------------------------------
(* C23: the offset at the end of an iteration *)

\* C23 (as stated): at the end of every iteration spent in list view the
\* scroll offset is within [0, maxScroll] of the current list and is the
\* offset of the last list frame drawn, whatever drags and refreshes came
\* before.
C23_OffsetAsDrawn ==
  (variant = "uptime" /\ selectedMonitor < 0)
    => /\ 0 <= scrollOffset
       /\ scrollOffset <= MaxScrollOf(monitorCount)
       /\ scrollOffset = frameList.offset

----------------------------------------------------------------------------
(* C24: a touch that began in detail view *)

\* C24 (as stated): a touch of the uptime monitor that began in detail view
\* triggers no list-view action, also when the detail timeout fires while
\* the finger is down: the rest of the touch neither scrolls the list, nor
\* selects a monitor, nor refreshes from the header.
C24_DetailTouchStaysInert ==
  [][ (variant = "uptime" /\ isTouching /\ startedInDetail)
      => /\ action' \notin {"select", "refresh"}
         /\ (event' = "move" /\ fetches' = 0) => scrollOffset' = scrollOffset
    ]_vars

----------------------------------------------------------------------------
(* C25: one effect per touch *)

\* C25 (as stated): no touch has two effects: a touch that entered dragging
\* (and so scrolled the list) is never also handled as a tap, and a touch
\* that switched the mode is never also handled as a tap (the touch-up
\* performs one action at most, so a mode switch excludes a tap action).
C25_OneEffectPerTouch ==
  /\ (event = "up" /\ upDragging) => action \notin TapEffects
  /\ action = "toggle" => (event = "up" /\ variant = "dual" /\ ~isTouching)

----------------------------------------------------------------------------
(* C26: the frame on the panel at the end of an iteration *)

\* The last frame pushed shows the view the sketch is in, with the monitor
\* list as fetched.
FrameShowsView ==
  CASE variant = "uptime" ->
         IF selectedMonitor >= 0 THEN frameView = "detail"
         ELSE frameView = "list" /\ frameList.rows = monitorCount
    [] variant = "dual" ->
         /\ frameView = currentMode
         /\ currentMode = "uptime" =>
              frameList.rows = Min(monitorCount, DUAL_MAX_ROWS)
    [] OTHER ->
         frameView = IF trackValid THEN "player" ELSE "nothing"

\* C26 (as stated): at the end of every iteration the last flushed frame
\* shows the current view (a change of view, a mode switch or a refresh made
\* in the iteration has been drawn and flushed), and an iteration in which
\* nothing changes does not render.
C26_FrameIsCurrent ==
  [][ /\ FrameShowsView'
      /\ QuietStep => pushes' = << >> ]_vars

----------------------------------------------------------------------------
(* C27: idle after the touch-up *)

\* C27 (as stated): after every touch-up no touch is active and the dragging
\* flag is clear, and between two polls the dragging flag is set only while
\* a touch is active, in the uptime monitor and in the dual-mode display, the
\* swipe included.
C27_IdleAfterTouchUp ==
  /\ event = "up" => (~isTouching /\ ~isDragging)
  /\ isDragging => isTouching

----------------------------------------------------------------------------
(* C28: pressed and dragging *)

\* The finger is more than 15 px from the start of the touch on an axis.
FarFromStart(p) ==
  \/ Abs(p[1] - touchStartX) > MOVE_THRESHOLD
  \/ Abs(p[2] - touchStartY) > MOVE_THRESHOLD

\* C28: a touch-down while no touch is active records the start position and
\* the start time and leaves the dragging flag clear; the flag is set only by
\* a poll that finds the finger more than 15 px from the start on an axis,
\* and once set it stays set at every later poll of the touch, also when the
\* finger is back within 15 px of the start.
C28_PressedThenDragging ==
  [][ /\ event' = "start" =>
           /\ ~isTouching /\ isTouching' /\ ~isDragging'
           /\ touchStartX' = fingerAt'[1] /\ touchStartY' = fingerAt'[2]
           /\ touchElapsed' = 0
      /\ event' = "move" =>
           /\ isTouching /\ isTouching'
           /\ touchStartX' = touchStartX /\ touchStartY' = touchStartY
           /\ isDragging' = (isDragging \/ FarFromStart(fingerAt'))
      /\ (~isDragging /\ isDragging') =>
           (event' = "move" /\ FarFromStart(fingerAt')) ]_vars

\* A dragging touch whose finger is back where the touch began.
C28_Witness ==
  /\ event = "move" /\ isTouching /\ isDragging
  /\ fingerAt = << touchStartX, touchStartY >>

\* C29: the monitor list holds between 0 and 12 records whatever the provider
\* answered; an answer with status 200 that parses replaces the list by the
\* first 12 records of the answer at most, in the provider's order; any other
\* answer leaves the list and its count as they were.
Snapshot(mons, n) == SubSeq(mons, 1, n)

Succeeded(a) == a.code = 200 /\ a.parses

C29_SnapshotWithinCapacity ==
  /\ [](0 <= monitorCount /\ monitorCount <= MAX_MONITORS)
  /\ [][ /\ Succeeded(answer') =>
              /\ monitorCount' = Min(Len(answer'.data), MAX_MONITORS)
              /\ Snapshot(monitors', monitorCount')
                   = SubSeq(answer'.data, 1, monitorCount')
         /\ ~Succeeded(answer') =>
              /\ monitorCount' = monitorCount
              /\ Snapshot(monitors', monitorCount')
                   = Snapshot(monitors, monitorCount)
              /\ monitors' = monitors ]_vars

\* The provider delivered more than 12 records and the list took the first 12.
C29_Witness ==
  /\ Succeeded(answer)
  /\ Len(answer.data) > MAX_MONITORS
  /\ monitorCount = MAX_MONITORS
  /\ monitors[MAX_MONITORS] = answer.data[MAX_MONITORS]

\* C30: whatever the gesture state (idle, pressed, dragging), the view (list,
\* detail, either mode) and the poll result (a touch at any point, no touch),
\* one loop() iteration has a next state, so the loop never stops; and
\* handleTouch() polled without a touch while idle changes no gesture variable
\* and no view variable.
GestureAndView(m) ==
  << m.isTouching, m.isDragging, m.touchStartX, m.touchStartY, m.lastTouchX,
     m.lastTouchY, m.touchElapsed, m.selectedMonitor, m.scrollOffset,
     m.currentMode, m.modeChanged >>

EveryPollDefined ==
  CASE variant = "uptime" -> \A s \in Samples : ENABLED UptimePoll(s)
    [] variant = "dual" -> \A s \in Samples : ENABLED DualPoll(s)
    [] OTHER -> TRUE

IdlePollInert ==
  ~isTouching =>
    LET m == IF variant = "dual"
             THEN DualHandleTouch(Cur, NoTouch, FetchFailed, FALSE)
             ELSE HandleTouch(Cur, NoTouch, FetchFailed)
    IN GestureAndView(m) = GestureAndView(Cur)

C30_TotalTransition ==
  /\ EveryPollDefined
  /\ ENABLED Next
  /\ IdlePollInert

\* C31: a now-playing frame that shows the art buffer shows the art of the
\* track it names: when such a frame is drawn, the cached URL is the URL of
\* the current track's image.
C31_ArtBelongsToTrack ==
  AlbumAreaShown = "buffer" => lastAlbumArtUrl = albumArtUrl

\* C32: in player v2 a touch-up dispatches what the screen shows at that
\* moment: the start of the favorites only while no track is valid, previous,
\* play/pause and next only while a track is valid; and no button is
\* highlighted while no touch is active.
C32_DispatchMatchesScreen ==
  /\ [][ variant = "playerv2" =>
           /\ action' = "favorites" => ~trackValid
           /\ action' \in {"previous", "playpause", "next"} => trackValid ]_vars
  /\ []((variant = "playerv2" /\ ~isTouching) => highlightedButton = -1)

\* C33: while a start of the favorites is under way the screen says so: an
\* iteration that raised isStartingPlayback drew at least one frame with
\* "Starting..." before the request completed.
C33_StartingIsShown == startRaised => startingFrames >= 1

\* C34: fbFillRoundRect(x, y, w, h, r) writes only inside its bounding
\* rectangle [x, x+w) x [y, y+h) for the arguments the screens pass, the
\* progress fills narrower than 2r included.
BoundingBox(c) ==
  {j * SCREEN_W + i : i \in c.x .. (c.x + c.w - 1), j \in c.y .. (c.y + c.h - 1)}

C34_RoundRectInsideBox ==
  (drawCall.done /\ [drawCall EXCEPT !.done = FALSE] \in ProgressFills)
    => fbWrites \subseteq BoundingBox(drawCall)

\* C35: fbDrawChar draws nothing and reads nothing for a character code
\* outside 32..122; for a code inside it reads the six bytes
\* (ch - 32) * 8 + i, i < 6, all of them inside the 728 bytes of font6x8, and
\* what it writes is one block of sz by sz pixels (its part on the screen)
\* for every set bit of those bytes.
SetBits(ch) ==
  {b \in (0 .. 5) \X (0 .. 7) : BitSet(font6x8[(ch - 32) * 8 + b[1] + 1], b[2])}

C35_GlyphReadsAndBlocks ==
  (drawCall.done /\ drawCall.op = "fbDrawChar") =>
    LET ch == drawCall.ch[1]
        sz == drawCall.sz
    IN /\ Len(font6x8) = 728
       /\ ch \notin 32 .. 122 => fbWrites = {} /\ fontReads = {}
       /\ ch \in 32 .. 122 =>
            /\ fontReads = {(ch - 32) * 8 + i : i \in 0 .. 5}
            /\ fontReads \subseteq 0 .. (Len(font6x8) - 1)
            /\ fbWrites = UNION {RectPart(drawCall.x + b[1] * sz,
                                          drawCall.y + b[2] * sz, sz, sz) :
                                   b \in SetBits(ch)}

\* 'z', the last character of the font, was drawn at twice the size and
\* left pixels on the screen.
C35_Witness ==
  /\ drawCall.done /\ drawCall.op = "fbDrawChar"
  /\ drawCall.ch[1] = 122 /\ drawCall.sz = 2
  /\ 725 \in fontReads
  /\ fbWrites # {}

\* C36: every raster primitive is idempotent and overwriting: a call
\* repeated with the same arguments leaves fb[] as it was after the first,
\* and after any calls every pixel holds the colour of the last call that
\* covers it, or what it held before if no call covers it.
Shape(p) == IF p.call.op = "fbClear" THEN OnScreen ELSE Intended(p.call)

Covers(p, i) == i \in Shape(p)

\* The colour of the last call of log that covers pixel i, shapes[k] being
\* the shape of call k.
LatestColour(log, shapes, i) ==
  LET ks == {k \in 1 .. Len(log) : i \in shapes[k]}
  IN IF ks = {} THEN "before"
     ELSE log[CHOOSE k \in ks : \A m \in ks : m <= k].c

\* The corner of the screen the calls are made in.
PaintCorner == RectPart(0, 0, 10, 10)

\* The corner and one pixel far from every call.
Probe == PaintCorner \cup {SCREEN_W * SCREEN_H - 1}

C36_IdempotentAndOverwriting ==
  /\ [][ (paintLog # << >> /\ paintLog' = Append(paintLog, paintLog[Len(paintLog)]))
           => fb' = fb ]_vars
  /\ [](LET shapes == [k \in 1 .. Len(paintLog) |-> Shape(paintLog[k])]
        IN /\ DOMAIN fb.over \subseteq PaintCorner
           /\ \A i \in Probe : FbAt(i) = LatestColour(paintLog, shapes, i))

\* Two calls of different colours overlapped: a pixel of both holds the
\* second colour, a pixel of the first alone still holds the first.
C36_Witness ==
  /\ Len(paintLog) = 2
  /\ paintLog[1].c # paintLog[2].c
  /\ paintLog[1].call.op = "fbFillRoundRect"
  /\ paintLog[2].call.op = "fbFillCircle"
  /\ \E i \in PaintCorner :
       /\ Covers(paintLog[1], i) /\ Covers(paintLog[2], i)
       /\ FbAt(i) = paintLog[2].c
  /\ \E i \in PaintCorner :
       /\ Covers(paintLog[1], i) /\ ~Covers(paintLog[2], i)
       /\ FbAt(i) = paintLog[1].c

====
